---- MODULE Spec2Model ----
(***************************************************************************)
(* A model of the Hex engine of AlexShadow3/HexGame: the HexBoard grid,    *)
(* its win detection (src/src/HexGame.js, class HexBoard) and the AIPlayer *)
(* move policies (src/src/Player.js).                                      *)
(*                                                                         *)
(* A HexBoard object is the record [size, shape, board]; board maps every  *)
(* coordinate <<row, col>> of the size x size grid to NoCell (the entry is *)
(* null: the shape excludes the coordinate), Empty (a HexCell whose player *)
(* is null), 1 or 2 (a HexCell owned by that player).                      *)
(***************************************************************************)
EXTENDS Integers, Sequences, FiniteSets, TLC

VARIABLES
    board,              \* the HexBoard object (of the HexGame, when there is one)
    gameMode,           \* HexGame.gameMode, "none" when the board stands alone
    currentPlayerIndex, \* HexGame.currentPlayerIndex
    gameOver,           \* HexGame.gameOver
    winner,             \* number of HexGame.winner, 0 when it is null
    moveHistory,        \* HexGame.moveHistory
    op,                 \* the last call made
    ret,                \* what the last call returned
    server,             \* the HexMultiplayerServer around the game, if any
    tournament          \* the Tournament that plays the game, if any

gameVars == <<gameMode, currentPlayerIndex, gameOver, winner, moveHistory>>

vars == <<board, gameMode, currentPlayerIndex, gameOver, winner, moveHistory, op, ret,
          server, tournament>>

(* ------------------------------ bounds -------------------------------- *)

\* Largest board size explored; boards of every size 1..MaxSize are built.
MaxSize == 3

\* The minimax search is requested on the boards of at most MaxSearchCells
\* playable coordinates (every board of size 1 and 2, the diamond and the
\* triangle of size 3).
MaxSearchCells == 6

\* Largest depth argument of a direct call of minimax.
MaxDirectDepth == 2

\* Longest game played through HexGame.makeMove before hints are asked.
MaxGameMoves == 3

\* Largest board on which the search depth of makeMinimaxMove is asked
\* (a hexagon of size 5 has 25 cells, more than the 20 of the first threshold).
MaxDepthSize == 5

(* --------------------------- program constants ------------------------ *)

\* HexCell.player === null
Empty == 0

\* board[row][col] = null (no HexCell at a coordinate the shape excludes)
NoCell == 0 - 1

Players == {1, 2}

Shapes == {"hexagon", "diamond", "triangle", "parallelogram"}

\* The value null returned by getCell / makeMove of the AI.
Null == <<>>

\* The value of server where no HexMultiplayerServer was constructed.
NoServer == <<>>

\* The value of tournament where no Tournament was constructed.
NoTournament == <<>>

Abs(x) == IF x < 0 THEN 0 - x ELSE x

Max(x, y) == IF x >= y THEN x ELSE y

Min(x, y) == IF x <= y THEN x ELSE y

(* ------------------------------ HexBoard ------------------------------ *)

isCellValidForShape(size, shape, row, col) ==
    CASE shape = "hexagon" -> TRUE
      [] shape = "diamond" ->
            LET center == size \div 2
                distance == Abs(row - center) + Abs(col - center)
            IN  distance <= center
      [] shape = "triangle" -> col <= row
      [] shape = "parallelogram" -> TRUE
      [] OTHER -> TRUE

Coords(size) == (0 .. size - 1) \X (0 .. size - 1)

\* constructor + initializeBoard
NewHexBoard(size, shape) ==
    [size  |-> size,
     shape |-> shape,
     board |-> [rc \in Coords(size) |->
                  IF isCellValidForShape(size, shape, rc[1], rc[2])
                  THEN Empty ELSE NoCell]]

\* isValidPosition testing the bounds alone.
isValidPositionBoundsOnly(b, row, col) ==
    ~(row < 0 \/ row >= b.size \/ col < 0 \/ col >= b.size)

isValidPosition(b, row, col) ==
    IF row < 0 \/ row >= b.size \/ col < 0 \/ col >= b.size
    THEN FALSE
    ELSE isCellValidForShape(b.size, b.shape, row, col)
         /\ b.board[<<row, col>>] # NoCell

\* The HexCell at (row, col), named by its coordinate, or Null.
getCell(b, row, col) ==
    IF ~isValidPosition(b, row, col) THEN Null ELSE <<row, col>>

\* cell.player of a HexCell returned by getCell
player(b, cell) == b.board[cell]

\* isEmpty answering true for every cell.
isEmptyAlways(b, cell) == TRUE

isEmpty(b, cell) == player(b, cell) = Empty

isOwnedBy(b, cell, playerNumber) == player(b, cell) = playerNumber

\* makeMove without its test that the cell is empty.
makeMoveNoEmptyTest(b, row, col, playerNumber) ==
    LET cell == getCell(b, row, col)
    IN  IF cell = Null
        THEN [ok |-> FALSE, board |-> b]
        ELSE [ok |-> TRUE,
              board |-> [b EXCEPT !.board[cell] = playerNumber]]

\* HexBoard.makeMove: the returned flag and the board after the call.
makeMove(b, row, col, playerNumber) ==
    LET cell == getCell(b, row, col)
    IN  IF cell = Null \/ ~isEmpty(b, cell)
        THEN [ok |-> FALSE, board |-> b]
        ELSE [ok |-> TRUE,
              board |-> [b EXCEPT !.board[cell] = playerNumber]]

offsets == << <<0 - 1, 0>>, <<0 - 1, 1>>, <<0, 1>>,
              <<1, 0>>, <<1, 0 - 1>>, <<0, 0 - 1>> >>

RECURSIVE neighborsFrom(_, _, _, _)
\* getNeighbors without the offset (1, -1).
neighborsFromWithoutDownLeft(b, row, col, i) ==
    IF i > Len(offsets) THEN <<>>
    ELSE LET cell == IF offsets[i] = <<1, 0 - 1>> THEN Null
                     ELSE getCell(b, row + offsets[i][1], col + offsets[i][2])
         IN  IF cell # Null
             THEN <<cell>> \o neighborsFrom(b, row, col, i + 1)
             ELSE neighborsFrom(b, row, col, i + 1)

\* The loop of getNeighbors over the six offsets, from offset i on.
neighborsFrom(b, row, col, i) ==
    IF i > Len(offsets) THEN <<>>
    ELSE LET cell == getCell(b, row + offsets[i][1], col + offsets[i][2])
         IN  IF cell # Null
             THEN <<cell>> \o neighborsFrom(b, row, col, i + 1)
             ELSE neighborsFrom(b, row, col, i + 1)

\* Which coordinates hold a cell is fixed by the constructor for the life of a
\* board, so the result of the loop depends on (size, shape, row, col) alone:
\* it is tabulated once per board geometry.
neighborTable ==
    [k \in UNION { {<<size, shape, rc>> : shape \in Shapes, rc \in Coords(size)} :
                    size \in 1 .. MaxSize } |->
        neighborsFrom(NewHexBoard(k[1], k[2]), k[3][1], k[3][2], 1)]

getNeighbors(b, row, col) == neighborTable[<<b.size, b.shape, <<row, col>>>>]

RECURSIVE dfsVertical(_, _, _), dfsVerticalNeighbors(_, _, _, _)
\* Returns the boolean of the source and the visited set as the call left it.
dfsVertical(b, cell, visited) ==
    IF cell \in visited THEN [found |-> FALSE, visited |-> visited]
    ELSE LET v == visited \cup {cell}
         IN  IF cell[1] = b.size - 1
             THEN [found |-> TRUE, visited |-> v]
             ELSE dfsVerticalNeighbors(b, getNeighbors(b, cell[1], cell[2]), 1, v)

\* The neighbour loop returning the result of the first neighbour it follows.
dfsVerticalNeighborsFirstOnly(b, neighbors, i, visited) ==
    IF i > Len(neighbors) THEN [found |-> FALSE, visited |-> visited]
    ELSE IF isOwnedBy(b, neighbors[i], 1) /\ neighbors[i] \notin visited
         THEN dfsVertical(b, neighbors[i], visited)
         ELSE dfsVerticalNeighbors(b, neighbors, i + 1, visited)

dfsVerticalNeighbors(b, neighbors, i, visited) ==
    IF i > Len(neighbors) THEN [found |-> FALSE, visited |-> visited]
    ELSE IF isOwnedBy(b, neighbors[i], 1) /\ neighbors[i] \notin visited
         THEN LET r == dfsVertical(b, neighbors[i], visited)
              IN  IF r.found THEN r
                  ELSE dfsVerticalNeighbors(b, neighbors, i + 1, r.visited)
         ELSE dfsVerticalNeighbors(b, neighbors, i + 1, visited)

RECURSIVE dfsHorizontal(_, _, _), dfsHorizontalNeighbors(_, _, _, _)
dfsHorizontal(b, cell, visited) ==
    IF cell \in visited THEN [found |-> FALSE, visited |-> visited]
    ELSE LET v == visited \cup {cell}
         IN  IF cell[2] = b.size - 1
             THEN [found |-> TRUE, visited |-> v]
             ELSE dfsHorizontalNeighbors(b, getNeighbors(b, cell[1], cell[2]), 1, v)

\* The neighbour loop following every owned neighbour, whoever owns it.
dfsHorizontalNeighborsAnyOwner(b, neighbors, i, visited) ==
    IF i > Len(neighbors) THEN [found |-> FALSE, visited |-> visited]
    ELSE IF ~isEmpty(b, neighbors[i]) /\ neighbors[i] \notin visited
         THEN LET r == dfsHorizontal(b, neighbors[i], visited)
              IN  IF r.found THEN r
                  ELSE dfsHorizontalNeighbors(b, neighbors, i + 1, r.visited)
         ELSE dfsHorizontalNeighbors(b, neighbors, i + 1, visited)

dfsHorizontalNeighbors(b, neighbors, i, visited) ==
    IF i > Len(neighbors) THEN [found |-> FALSE, visited |-> visited]
    ELSE IF isOwnedBy(b, neighbors[i], 2) /\ neighbors[i] \notin visited
         THEN LET r == dfsHorizontal(b, neighbors[i], visited)
              IN  IF r.found THEN r
                  ELSE dfsHorizontalNeighbors(b, neighbors, i + 1, r.visited)
         ELSE dfsHorizontalNeighbors(b, neighbors, i + 1, visited)

RECURSIVE verticalFrom(_, _, _)
verticalFrom(b, col, visited) ==
    IF col >= b.size THEN FALSE
    ELSE LET startCell == getCell(b, 0, col)
         IN  IF startCell # Null /\ isOwnedBy(b, startCell, 1)
             THEN LET r == dfsVertical(b, startCell, visited)
                  IN  IF r.found THEN TRUE
                      ELSE verticalFrom(b, col + 1, r.visited)
             ELSE verticalFrom(b, col + 1, visited)

checkVerticalConnection(b) == verticalFrom(b, 0, {})

RECURSIVE horizontalFrom(_, _, _)
horizontalFrom(b, row, visited) ==
    IF row >= b.size THEN FALSE
    ELSE LET startCell == getCell(b, row, 0)
         IN  IF startCell # Null /\ isOwnedBy(b, startCell, 2)
             THEN LET r == dfsHorizontal(b, startCell, visited)
                  IN  IF r.found THEN TRUE
                      ELSE horizontalFrom(b, row + 1, r.visited)
             ELSE horizontalFrom(b, row + 1, visited)

checkHorizontalConnection(b) == horizontalFrom(b, 0, {})

checkWin(b, playerNumber) ==
    IF playerNumber = 1 THEN checkVerticalConnection(b)
    ELSE IF playerNumber = 2 THEN checkHorizontalConnection(b)
    ELSE FALSE

\* The same traversal with a log of the cells it expands, a cell being
\* expanded when dfsVertical or dfsHorizontal passes visited.has(key) and runs
\* visited.add(key). The side selects the function: 1 for dfsVertical, 2 for
\* dfsHorizontal.
onGoalBoundary(b, side, cell) ==
    IF side = 1 THEN cell[1] = b.size - 1 ELSE cell[2] = b.size - 1

RECURSIVE dfsLogged(_, _, _, _, _), dfsLoggedNeighbors(_, _, _, _, _, _)
dfsLogged(b, side, cell, visited, log) ==
    IF cell \in visited THEN [found |-> FALSE, visited |-> visited, log |-> log]
    ELSE LET v == visited \cup {cell}
             l == Append(log, cell)
         IN  IF onGoalBoundary(b, side, cell)
             THEN [found |-> TRUE, visited |-> v, log |-> l]
             ELSE dfsLoggedNeighbors(b, side, getNeighbors(b, cell[1], cell[2]), 1, v, l)

dfsLoggedNeighbors(b, side, neighbors, i, visited, log) ==
    IF i > Len(neighbors) THEN [found |-> FALSE, visited |-> visited, log |-> log]
    ELSE IF isOwnedBy(b, neighbors[i], side) /\ neighbors[i] \notin visited
         THEN LET r == dfsLogged(b, side, neighbors[i], visited, log)
              IN  IF r.found THEN r
                  ELSE dfsLoggedNeighbors(b, side, neighbors, i + 1, r.visited, r.log)
         ELSE dfsLoggedNeighbors(b, side, neighbors, i + 1, visited, log)

\* The seed of index k: getCell(0, k) for side 1, getCell(k, 0) for side 2.
seedCell(b, side, k) == IF side = 1 THEN getCell(b, 0, k) ELSE getCell(b, k, 0)

RECURSIVE connectionLogged(_, _, _, _, _)
\* The seed loop with a new visited set for every seed.
connectionLoggedFreshSet(b, side, k, visited, log) ==
    IF k >= b.size THEN [found |-> FALSE, visited |-> visited, log |-> log]
    ELSE LET startCell == seedCell(b, side, k)
         IN  IF startCell # Null /\ isOwnedBy(b, startCell, side)
             THEN LET r == dfsLogged(b, side, startCell, {}, log)
                  IN  IF r.found THEN r
                      ELSE connectionLogged(b, side, k + 1, r.visited, r.log)
             ELSE connectionLogged(b, side, k + 1, visited, log)

\* The seed loop of checkVerticalConnection and checkHorizontalConnection.
connectionLogged(b, side, k, visited, log) ==
    IF k >= b.size THEN [found |-> FALSE, visited |-> visited, log |-> log]
    ELSE LET startCell == seedCell(b, side, k)
         IN  IF startCell # Null /\ isOwnedBy(b, startCell, side)
             THEN LET r == dfsLogged(b, side, startCell, visited, log)
                  IN  IF r.found THEN r
                      ELSE connectionLogged(b, side, k + 1, r.visited, r.log)
             ELSE connectionLogged(b, side, k + 1, visited, log)

\* checkWin with its log: const visited = new Set() and the seed loop.
checkWinLogged(b, side) == connectionLogged(b, side, 0, {}, <<>>)

\* Row-major enumeration of the grid, as the nested loops of getEmptyCells.
rasterTable ==
    [size \in 1 .. Max(MaxSize, MaxDepthSize) |->
        [i \in 1 .. size * size |-> <<(i - 1) \div size, (i - 1) % size>>]]

raster(size) == rasterTable[size]

\* The cell test of getEmptyCells without its test of the owner.
emptyCellTestAnyOwner(b, rc) == getCell(b, rc[1], rc[2]) # Null

emptyCellTest(b, rc) ==
    getCell(b, rc[1], rc[2]) # Null /\ isEmpty(b, rc)

getEmptyCells(b) == SelectSeq(raster(b.size), LAMBDA rc : emptyCellTest(b, rc))

(* ------------------------------ AIPlayer ------------------------------ *)

\* JavaScript's Infinity: larger than every score the evaluator produces.
Infinity == 1000000

\* makeRandomMove draws its index from Math.random: the callers of the
\* operators below resolve this marker by a nondeterministic choice.
RandomPick == <<"random">>

opponentOf(number) == IF number = 1 THEN 2 ELSE 1

\* board.getCell(cell.row, cell.col).player = null
undoMove(b, cell) == [b EXCEPT !.board[cell] = Empty]

\* The walk of getConnectedComponent stopped after its start cell.
componentFromStartOnly(b, playerNumber, stack, visited, component) ==
    [component |-> << stack[1] >>, visited |-> visited \cup {stack[1]}]

RECURSIVE componentFrom(_, _, _, _, _)
\* The while loop of getConnectedComponent: stack is popped from its end.
componentFrom(b, playerNumber, stack, visited, component) ==
    IF Len(stack) = 0 THEN [component |-> component, visited |-> visited]
    ELSE LET top  == stack[Len(stack)]
             rest == SubSeq(stack, 1, Len(stack) - 1)
         IN  IF top \in visited
             THEN componentFrom(b, playerNumber, rest, visited, component)
             ELSE LET v    == visited \cup {top}
                      cell == getCell(b, top[1], top[2])
                  IN  IF cell # Null /\ isOwnedBy(b, cell, playerNumber)
                      THEN componentFrom(b, playerNumber,
                               rest \o SelectSeq(getNeighbors(b, top[1], top[2]),
                                                 LAMBDA n : n \notin v),
                               v, Append(component, top))
                      ELSE componentFrom(b, playerNumber, rest, v, component)

getConnectedComponent(b, startRow, startCol, playerNumber, visited) ==
    componentFrom(b, playerNumber, << <<startRow, startCol>> >>, visited, <<>>)

SeqMin(q) == CHOOSE x \in {q[i] : i \in 1 .. Len(q)} :
                 \A y \in {q[i] : i \in 1 .. Len(q)} : x <= y

SeqMax(q) == CHOOSE x \in {q[i] : i \in 1 .. Len(q)} :
                 \A y \in {q[i] : i \in 1 .. Len(q)} : x >= y

\* evaluateComponent measuring the rows for both sides.
evaluateComponentRowsOnly(component, boardSize, playerNumber) ==
    IF Len(component) = 0 THEN 0
    ELSE LET rows   == [i \in 1 .. Len(component) |-> component[i][1]]
             minRow == SeqMin(rows)
             maxRow == SeqMax(rows)
             span   == maxRow - minRow
         IN  Len(component) * 10 + span * 50
             + (IF minRow = 0 THEN 100 ELSE 0)
             + (IF maxRow = boardSize - 1 THEN 100 ELSE 0)

evaluateComponent(component, boardSize, playerNumber) ==
    IF Len(component) = 0 THEN 0
    ELSE IF playerNumber = 1
         THEN LET rows   == [i \in 1 .. Len(component) |-> component[i][1]]
                  minRow == SeqMin(rows)
                  maxRow == SeqMax(rows)
                  span   == maxRow - minRow
              IN  Len(component) * 10 + span * 50
                  + (IF minRow = 0 THEN 100 ELSE 0)
                  + (IF maxRow = boardSize - 1 THEN 100 ELSE 0)
         ELSE LET cols   == [i \in 1 .. Len(component) |-> component[i][2]]
                  minCol == SeqMin(cols)
                  maxCol == SeqMax(cols)
                  span   == maxCol - minCol
              IN  Len(component) * 10 + span * 50
                  + (IF minCol = 0 THEN 100 ELSE 0)
                  + (IF maxCol = boardSize - 1 THEN 100 ELSE 0)

RECURSIVE connectivityFrom(_, _, _, _, _)
\* The nested row/col loops of calculateConnectivity, i the raster index.
connectivityFrom(b, playerNumber, i, visited, connectivity) ==
    IF i > b.size * b.size THEN connectivity
    ELSE LET rc   == raster(b.size)[i]
             cell == getCell(b, rc[1], rc[2])
         IN  IF cell # Null /\ isOwnedBy(b, cell, playerNumber) /\ rc \notin visited
             THEN LET r == getConnectedComponent(b, rc[1], rc[2], playerNumber, visited)
                  IN  connectivityFrom(b, playerNumber, i + 1, r.visited,
                          connectivity
                          + evaluateComponent(r.component, b.size, playerNumber))
             ELSE connectivityFrom(b, playerNumber, i + 1, visited, connectivity)

calculateConnectivity(b, playerNumber) ==
    connectivityFrom(b, playerNumber, 1, {}, 0)

\* The components that one calculateConnectivity call obtains from
\* getConnectedComponent, in the order of its loop.
RECURSIVE componentsFrom(_, _, _, _, _)
componentsFrom(b, playerNumber, i, visited, components) ==
    IF i > b.size * b.size THEN components
    ELSE LET rc   == raster(b.size)[i]
             cell == getCell(b, rc[1], rc[2])
         IN  IF cell # Null /\ isOwnedBy(b, cell, playerNumber) /\ rc \notin visited
             THEN LET r == getConnectedComponent(b, rc[1], rc[2], playerNumber, visited)
                  IN  componentsFrom(b, playerNumber, i + 1, r.visited,
                          Append(components, r.component))
             ELSE componentsFrom(b, playerNumber, i + 1, visited, components)

connectedComponents(b, playerNumber) ==
    componentsFrom(b, playerNumber, 1, {}, <<>>)

\* The terminal tests without the test for a full board.
terminalOutcomeNoDraw(b, number) ==
    IF checkWin(b, number) THEN [score |-> 10000, isTerminal |-> TRUE]
    ELSE IF checkWin(b, opponentOf(number))
         THEN [score |-> 0 - 10000, isTerminal |-> TRUE]
    ELSE [score |-> 0, isTerminal |-> FALSE]

\* The three terminal tests of evaluatePosition, in its order.
terminalOutcome(b, number) ==
    IF checkWin(b, number) THEN [score |-> 10000, isTerminal |-> TRUE]
    ELSE IF checkWin(b, opponentOf(number))
         THEN [score |-> 0 - 10000, isTerminal |-> TRUE]
    ELSE IF Len(getEmptyCells(b)) = 0 THEN [score |-> 0, isTerminal |-> TRUE]
    ELSE [score |-> 0, isTerminal |-> FALSE]

\* The score evaluatePosition gives a position that is not terminal.
connectivityScore(b, number) ==
    calculateConnectivity(b, number)
    - calculateConnectivity(b, opponentOf(number))

evaluatePosition(b, number) ==
    LET t == terminalOutcome(b, number)
    IN  IF t.isTerminal THEN t
        ELSE [score |-> connectivityScore(b, number), isTerminal |-> FALSE]

RECURSIVE minimax(_, _, _, _, _, _)
RECURSIVE minimaxMaxLoop(_, _, _, _, _, _, _, _)
RECURSIVE minimaxMinLoop(_, _, _, _, _, _, _, _)

\* The score minimax returns and the board as the call leaves it.  The source
\* computes evaluatePosition(board) first and returns its score when it is
\* terminal or depth is 0; the connectivity part of that (pure) evaluation is
\* computed here only where its value is used.  The field cut is an
\* observation, not program state: some loop of the call was left by its
\* break with cells still to visit.
minimax(b, number, depth, isMaximizing, alpha, beta) ==
    LET gameState == terminalOutcome(b, number)
    IN  IF gameState.isTerminal
        THEN [score |-> gameState.score, board |-> b, cut |-> FALSE]
        ELSE IF depth = 0
        THEN [score |-> connectivityScore(b, number), board |-> b, cut |-> FALSE]
        ELSE IF isMaximizing
             THEN minimaxMaxLoop(b, number, depth, alpha, beta,
                                 getEmptyCells(b), 1, 0 - Infinity)
             ELSE minimaxMinLoop(b, number, depth, alpha, beta,
                                 getEmptyCells(b), 1, Infinity)

minimaxMaxLoop(b, number, depth, alpha, beta, emptyCells, i, maxEval) ==
    IF i > Len(emptyCells) THEN [score |-> maxEval, board |-> b, cut |-> FALSE]
    ELSE LET cell   == emptyCells[i]
             moved  == makeMove(b, cell[1], cell[2], number).board
             r      == minimax(moved, number, depth - 1, FALSE, alpha, beta)
             undone == undoMove(r.board, cell)
             maxE   == Max(maxEval, r.score)
             a      == Max(alpha, r.score)
         IN  IF beta <= a
             THEN [score |-> maxE, board |-> undone,
                   cut |-> r.cut \/ i < Len(emptyCells)]
             ELSE LET rest == minimaxMaxLoop(undone, number, depth, a, beta,
                                             emptyCells, i + 1, maxE)
                  IN  [rest EXCEPT !.cut = @ \/ r.cut]

\* The min loop with its break test reversed (beta >= alpha).
minimaxMinLoopReversedTest(b, number, depth, alpha, beta, emptyCells, i, minEval) ==
    IF i > Len(emptyCells) THEN [score |-> minEval, board |-> b, cut |-> FALSE]
    ELSE LET cell   == emptyCells[i]
             moved  == makeMove(b, cell[1], cell[2], opponentOf(number)).board
             r      == minimax(moved, number, depth - 1, TRUE, alpha, beta)
             undone == undoMove(r.board, cell)
             minE   == Min(minEval, r.score)
             bt     == Min(beta, r.score)
         IN  IF bt >= alpha
             THEN [score |-> minE, board |-> undone,
                   cut |-> r.cut \/ i < Len(emptyCells)]
             ELSE LET rest == minimaxMinLoop(undone, number, depth, alpha, bt,
                                             emptyCells, i + 1, minE)
                  IN  [rest EXCEPT !.cut = @ \/ r.cut]

\* The min loop leaving its mark on the board when it breaks.
minimaxMinLoopNoUndoOnBreak(b, number, depth, alpha, beta, emptyCells, i, minEval) ==
    IF i > Len(emptyCells) THEN [score |-> minEval, board |-> b, cut |-> FALSE]
    ELSE LET cell   == emptyCells[i]
             moved  == makeMove(b, cell[1], cell[2], opponentOf(number)).board
             r      == minimax(moved, number, depth - 1, TRUE, alpha, beta)
             undone == undoMove(r.board, cell)
             minE   == Min(minEval, r.score)
             bt     == Min(beta, r.score)
         IN  IF bt <= alpha
             THEN [score |-> minE, board |-> r.board,
                   cut |-> r.cut \/ i < Len(emptyCells)]
             ELSE LET rest == minimaxMinLoop(undone, number, depth, alpha, bt,
                                             emptyCells, i + 1, minE)
                  IN  [rest EXCEPT !.cut = @ \/ r.cut]

minimaxMinLoop(b, number, depth, alpha, beta, emptyCells, i, minEval) ==
    IF i > Len(emptyCells) THEN [score |-> minEval, board |-> b, cut |-> FALSE]
    ELSE LET cell   == emptyCells[i]
             moved  == makeMove(b, cell[1], cell[2], opponentOf(number)).board
             r      == minimax(moved, number, depth - 1, TRUE, alpha, beta)
             undone == undoMove(r.board, cell)
             minE   == Min(minEval, r.score)
             bt     == Min(beta, r.score)
         IN  IF bt <= alpha
             THEN [score |-> minE, board |-> undone,
                   cut |-> r.cut \/ i < Len(emptyCells)]
             ELSE LET rest == minimaxMinLoop(undone, number, depth, alpha, bt,
                                             emptyCells, i + 1, minE)
                  IN  [rest EXCEPT !.cut = @ \/ r.cut]

\* The depth thresholds read as inclusive (>= 20, >= 10).
maxDepthForInclusive(emptyCells) ==
    IF Len(emptyCells) >= 20 THEN 3 ELSE (IF Len(emptyCells) >= 10 THEN 4 ELSE 5)

maxDepthFor(emptyCells) ==
    IF Len(emptyCells) > 20 THEN 3 ELSE (IF Len(emptyCells) > 10 THEN 4 ELSE 5)

RECURSIVE minimaxMoveLoop(_, _, _, _, _, _, _)
\* The loop of makeMinimaxMove keeping the last cell of highest score (>=).
minimaxMoveLoopLastSeen(b, number, maxDepth, emptyCells, i, bestMove, bestScore) ==
    IF i > Len(emptyCells)
    THEN [move |-> IF bestMove # Null THEN bestMove ELSE RandomPick,
          board |-> b, cut |-> FALSE]
    ELSE LET cell   == emptyCells[i]
             moved  == makeMove(b, cell[1], cell[2], number).board
             r      == minimax(moved, number, maxDepth - 1, FALSE,
                               0 - Infinity, Infinity)
             undone == undoMove(r.board, cell)
             rest   == IF r.score >= bestScore
                       THEN minimaxMoveLoop(undone, number, maxDepth, emptyCells,
                                            i + 1, cell, r.score)
                       ELSE minimaxMoveLoop(undone, number, maxDepth, emptyCells,
                                            i + 1, bestMove, bestScore)
         IN  [rest EXCEPT !.cut = @ \/ r.cut]

\* The for loop of makeMinimaxMove; bestMove starts as Null.
minimaxMoveLoop(b, number, maxDepth, emptyCells, i, bestMove, bestScore) ==
    IF i > Len(emptyCells)
    THEN [move |-> IF bestMove # Null THEN bestMove ELSE RandomPick,
          board |-> b, cut |-> FALSE]
    ELSE LET cell   == emptyCells[i]
             moved  == makeMove(b, cell[1], cell[2], number).board
             r      == minimax(moved, number, maxDepth - 1, FALSE,
                               0 - Infinity, Infinity)
             undone == undoMove(r.board, cell)
             rest   == IF r.score > bestScore
                       THEN minimaxMoveLoop(undone, number, maxDepth, emptyCells,
                                            i + 1, cell, r.score)
                       ELSE minimaxMoveLoop(undone, number, maxDepth, emptyCells,
                                            i + 1, bestMove, bestScore)
         IN  [rest EXCEPT !.cut = @ \/ r.cut]

makeMinimaxMove(b, number, emptyCells) ==
    IF Len(emptyCells) = 0 THEN [move |-> Null, board |-> b, cut |-> FALSE]
    ELSE minimaxMoveLoop(b, number, maxDepthFor(emptyCells), emptyCells, 1,
                         Null, 0 - Infinity)

RECURSIVE probeWinLoop(_, _, _, _)
\* The probe loop returning a winning cell without taking its mark back.
probeWinLoopNoUndoOnWin(b, playerNumber, emptyCells, i) ==
    IF i > Len(emptyCells) THEN [move |-> Null, board |-> b]
    ELSE LET cell  == emptyCells[i]
             moved == makeMove(b, cell[1], cell[2], playerNumber).board
         IN  IF checkWin(moved, playerNumber)
             THEN [move |-> cell, board |-> moved]
             ELSE probeWinLoop(undoMove(moved, cell), playerNumber, emptyCells, i + 1)

\* One of the two probe loops of makeMediumMove: place playerNumber's mark on
\* each cell, test its win, undo.  move is Null when the loop ran to its end.
probeWinLoop(b, playerNumber, emptyCells, i) ==
    IF i > Len(emptyCells) THEN [move |-> Null, board |-> b]
    ELSE LET cell  == emptyCells[i]
             moved == makeMove(b, cell[1], cell[2], playerNumber).board
         IN  IF checkWin(moved, playerNumber)
             THEN [move |-> cell, board |-> undoMove(moved, cell)]
             ELSE probeWinLoop(undoMove(moved, cell), playerNumber, emptyCells, i + 1)

\* The score with the centrality bonus taken on the column for both sides.
strategicScoreColumnOnly(b, number, cell) ==
    LET neighbors == getNeighbors(b, cell[1], cell[2])
        owned     == Len(SelectSeq(neighbors, LAMBDA n : isOwnedBy(b, n, number)))
    IN  owned * 10 + (b.size - Abs(cell[2] - (b.size \div 2)))

strategicScore(b, number, cell) ==
    LET neighbors == getNeighbors(b, cell[1], cell[2])
        owned     == Len(SelectSeq(neighbors, LAMBDA n : isOwnedBy(b, n, number)))
    IN  owned * 10
        + (IF number = 1
           THEN b.size - Abs(cell[2] - (b.size \div 2))
           ELSE b.size - Abs(cell[1] - (b.size \div 2)))

RECURSIVE insertByScore(_, _)
\* Array.prototype.sort with (a, b) => b.score - a.score is a stable sort:
\* an entry goes after every entry whose score is at least its own.
insertByScore(sorted, entry) ==
    IF Len(sorted) = 0 THEN <<entry>>
    ELSE IF sorted[1].score >= entry.score
         THEN <<sorted[1]>> \o insertByScore(Tail(sorted), entry)
         ELSE <<entry>> \o sorted

RECURSIVE sortByScore(_, _, _)
sortByScore(moves, i, sorted) ==
    IF i > Len(moves) THEN sorted
    ELSE sortByScore(moves, i + 1, insertByScore(sorted, moves[i]))

findStrategicMove(b, number, emptyCells) ==
    LET scored    == [i \in 1 .. Len(emptyCells) |->
                        [cell |-> emptyCells[i],
                         score |-> strategicScore(b, number, emptyCells[i])]]
        bestMoves == SelectSeq(scored, LAMBDA m : m.score > 0)
    IN  IF Len(bestMoves) = 0 THEN Null
        ELSE sortByScore(bestMoves, 1, <<>>)[1].cell

\* makeMediumMove without the probe of its own wins.
makeMediumMoveNoWinProbe(b, number, emptyCells) ==
    LET block == probeWinLoop(b, opponentOf(number), emptyCells, 1)
    IN  IF block.move # Null THEN block
        ELSE LET strategicMove ==
                     findStrategicMove(block.board, number, emptyCells)
             IN  [move  |-> IF strategicMove # Null THEN strategicMove
                            ELSE RandomPick,
                  board |-> block.board]

\* makeMediumMove probing its own number in the second loop as well.
makeMediumMoveOwnNumberTwice(b, number, emptyCells) ==
    LET win == probeWinLoop(b, number, emptyCells, 1)
    IN  IF win.move # Null THEN win
        ELSE LET block == probeWinLoop(win.board, number, emptyCells, 1)
             IN  IF block.move # Null THEN block
                 ELSE LET strategicMove ==
                              findStrategicMove(block.board, number, emptyCells)
                      IN  [move  |-> IF strategicMove # Null THEN strategicMove
                                     ELSE RandomPick,
                           board |-> block.board]

makeMediumMove(b, number, emptyCells) ==
    LET win == probeWinLoop(b, number, emptyCells, 1)
    IN  IF win.move # Null THEN win
        ELSE LET block == probeWinLoop(win.board, opponentOf(number), emptyCells, 1)
             IN  IF block.move # Null THEN block
                 ELSE LET strategicMove ==
                              findStrategicMove(block.board, number, emptyCells)
                      IN  [move  |-> IF strategicMove # Null THEN strategicMove
                                     ELSE RandomPick,
                           board |-> block.board]

\* AIPlayer.makeMove: the move (Null, a cell, or RandomPick) and the board
\* as the call leaves it.
aiMakeMove(b, number, difficulty) ==
    LET emptyCells == getEmptyCells(b)
    IN  IF Len(emptyCells) = 0 THEN [move |-> Null, board |-> b]
        ELSE CASE difficulty = "easy"   -> [move |-> RandomPick, board |-> b]
               [] difficulty = "medium" -> makeMediumMove(b, number, emptyCells)
               [] difficulty = "hard"   -> makeMinimaxMove(b, number, emptyCells)
               [] OTHER                 -> [move |-> RandomPick, board |-> b]

(* ------------------------------ actions ------------------------------- *)

\* Arguments the callers hand to HexBoard.makeMove: every coordinate of the
\* grid and one coordinate beyond each of its four sides.
Probes(size) ==
    Coords(size) \cup { <<0 - 1, 0>>, <<0, 0 - 1>>, <<size, 0>>, <<0, size>> }

\* The last call made: its name and, for a call on an AIPlayer, the fields of
\* the receiver (number, difficulty) and the depth and isMaximizing arguments.
Call(name, number, difficulty, depth, isMaximizing) ==
    [name |-> name, number |-> number, difficulty |-> difficulty,
     depth |-> depth, isMaximizing |-> isMaximizing]

\* A standalone HexBoard, as the tests build it: no HexGame around it.
Init ==
    /\ \E size \in 1 .. MaxSize, shape \in Shapes : board = NewHexBoard(size, shape)
    /\ gameMode = "none"
    /\ currentPlayerIndex = 0
    /\ gameOver = FALSE
    /\ winner = 0
    /\ moveHistory = <<>>
    /\ op = Call("new HexBoard", 0, "", 0, FALSE)
    /\ tournament = NoTournament
    /\ server = NoServer
    /\ ret = Null

HexBoard_makeMove(row, col, playerNumber) ==
    LET r == makeMove(board, row, col, playerNumber)
    IN  /\ gameMode = "none"
        /\ board' = r.board
        /\ ret' = r.ok
        /\ op' = Call("HexBoard.makeMove", 0, "", 0, FALSE)
        /\ UNCHANGED tournament
        /\ UNCHANGED server
        /\ UNCHANGED gameVars

\* A refused placement leaves the board as it was (C1 checks this on the step
\* itself), so the placements that follow it are those of the state before it
\* and are explored from there.
PlaceAny ==
    \E rc \in Probes(board.size), playerNumber \in Players :
        /\ op.name = "HexBoard.makeMove" => ret
        /\ HexBoard_makeMove(rc[1], rc[2], playerNumber)

NextBoard == PlaceAny

SpecBoard == Init /\ [][NextBoard]_vars

(* ------------------------------ HexGame ------------------------------- *)

\* players[index].number, as initializePlayers numbers the two players.
\* The current player read as the first player whatever the index.
playerNumberAtFirstOnly(index) == 1

playerNumberAt(index) == index + 1

\* HexGame.makeMove without its test of gameOver.
HexGame_makeMoveNoGameOverTest(row, col) ==
    /\ gameMode # "none"
    /\ op' = Call("HexGame.makeMove", 0, "", 0, FALSE)
    /\ UNCHANGED tournament
    /\ UNCHANGED server
    /\ IF ~isValidPosition(board, row, col)
       THEN /\ ret' = [success |-> FALSE, message |-> "Invalid position"]
            /\ UNCHANGED <<board, gameVars>>
       ELSE IF ~isEmpty(board, getCell(board, row, col))
       THEN /\ ret' = [success |-> FALSE, message |-> "Position already occupied"]
            /\ UNCHANGED <<board, gameVars>>
       ELSE LET number == playerNumberAt(currentPlayerIndex)
                moved  == makeMove(board, row, col, number).board
            IN  /\ board' = moved
                /\ moveHistory' = Append(moveHistory,
                       [player |-> number, row |-> row, col |-> col,
                        move |-> Len(moveHistory) + 1])
                /\ UNCHANGED gameMode
                /\ IF checkWin(moved, number)
                   THEN /\ gameOver' = TRUE
                        /\ winner' = number
                        /\ UNCHANGED currentPlayerIndex
                        /\ ret' = [success |-> TRUE, message |-> "wins!"]
                   ELSE IF Len(getEmptyCells(moved)) = 0
                   THEN /\ gameOver' = TRUE
                        /\ UNCHANGED <<winner, currentPlayerIndex>>
                        /\ ret' = [success |-> TRUE, message |-> "Game ends in a draw!"]
                   ELSE /\ currentPlayerIndex' = 1 - currentPlayerIndex
                        /\ UNCHANGED <<gameOver, winner>>
                        /\ ret' = [success |-> TRUE, message |-> "Move successful"]

\* HexGame.makeMove: the whole handler.
HexGame_makeMove(row, col) ==
    /\ gameMode # "none"
    /\ op' = Call("HexGame.makeMove", 0, "", 0, FALSE)
    /\ UNCHANGED tournament
    /\ UNCHANGED server
    /\ IF gameOver
       THEN /\ ret' = [success |-> FALSE, message |-> "Game is already over"]
            /\ UNCHANGED <<board, gameVars>>
       ELSE IF ~isValidPosition(board, row, col)
       THEN /\ ret' = [success |-> FALSE, message |-> "Invalid position"]
            /\ UNCHANGED <<board, gameVars>>
       ELSE IF ~isEmpty(board, getCell(board, row, col))
       THEN /\ ret' = [success |-> FALSE, message |-> "Position already occupied"]
            /\ UNCHANGED <<board, gameVars>>
       ELSE LET number == playerNumberAt(currentPlayerIndex)
                moved  == makeMove(board, row, col, number).board
            IN  /\ board' = moved
                /\ moveHistory' = Append(moveHistory,
                       [player |-> number, row |-> row, col |-> col,
                        move |-> Len(moveHistory) + 1])
                /\ UNCHANGED gameMode
                /\ IF checkWin(moved, number)
                   THEN /\ gameOver' = TRUE
                        /\ winner' = number
                        /\ UNCHANGED currentPlayerIndex
                        /\ ret' = [success |-> TRUE, message |-> "wins!"]
                   ELSE IF Len(getEmptyCells(moved)) = 0
                   THEN /\ gameOver' = TRUE
                        /\ UNCHANGED <<winner, currentPlayerIndex>>
                        /\ ret' = [success |-> TRUE, message |-> "Game ends in a draw!"]
                   ELSE /\ currentPlayerIndex' = 1 - currentPlayerIndex
                        /\ UNCHANGED <<gameOver, winner>>
                        /\ ret' = [success |-> TRUE, message |-> "Move successful"]

RECURSIVE hintsLoop(_, _, _, _, _)
\* The for loop of getMoveHints: the hints collected and the board it leaves.
hintsLoop(b, number, emptyCells, i, hints) ==
    IF i > Len(emptyCells) THEN [hints |-> hints, board |-> b]
    ELSE LET cell       == emptyCells[i]
             moved      == makeMove(b, cell[1], cell[2], number).board
             evaluation == evaluatePosition(moved, number)
         IN  hintsLoop(undoMove(moved, cell), number, emptyCells, i + 1,
                       Append(hints, [row |-> cell[1], col |-> cell[2],
                                      score |-> evaluation.score]))

\* HexGame.getMoveHints(count); the notation and description strings of a
\* hint are functions of its row, col and score and are left out.
HexGame_getMoveHints(count) ==
    /\ gameMode # "none"
    /\ op' = Call("HexGame.getMoveHints", 0, "", 0, FALSE)
    /\ UNCHANGED tournament
    /\ UNCHANGED server
    /\ UNCHANGED gameVars
    /\ IF gameOver THEN ret' = <<>> /\ UNCHANGED board
       ELSE LET number     == playerNumberAt(currentPlayerIndex)
                emptyCells == getEmptyCells(board)
            IN  IF Len(emptyCells) = 0 THEN ret' = <<>> /\ UNCHANGED board
                ELSE LET r      == hintsLoop(board, number, emptyCells, 1, <<>>)
                         sorted == sortByScore(r.hints, 1, <<>>)
                     IN  /\ board' = r.board
                         /\ ret' = SubSeq(sorted, 1, Min(count, Len(sorted)))

(* --------------------------- AIPlayer calls --------------------------- *)

Difficulties == {"easy", "medium", "hard", "expert"}

\* The boards on which the minimax search is requested.
Searchable(b) ==
    Cardinality({rc \in Coords(b.size) : b.board[rc] # NoCell}) <= MaxSearchCells

\* A move is requested of an AIPlayer after the board was built or changed,
\* as the callers do (a request, then the placement of the returned move).
BoardJustChanged == op.name \in {"new HexBoard", "HexBoard.makeMove"}

\* new AIPlayer(number, name, difficulty).makeMove(board)
AIPlayer_makeMove(number, difficulty) ==
    LET r          == aiMakeMove(board, number, difficulty)
        emptyCells == getEmptyCells(board)
    IN  /\ gameMode = "none"
        /\ BoardJustChanged
        /\ difficulty = "hard" => Searchable(board)
        /\ op' = Call("AIPlayer.makeMove", number, difficulty, 0, FALSE)
        /\ UNCHANGED tournament
        /\ UNCHANGED server
        /\ board' = r.board
        /\ IF r.move = RandomPick
           THEN \E i \in 1 .. Len(emptyCells) : ret' = emptyCells[i]
           ELSE ret' = r.move
        /\ UNCHANGED gameVars

\* new AIPlayer(number, name, 'hard').minimax(board, depth, isMaximizing,
\* -Infinity, Infinity)
AIPlayer_minimax(number, depth, isMaximizing) ==
    LET r == minimax(board, number, depth, isMaximizing, 0 - Infinity, Infinity)
    IN  /\ gameMode = "none"
        /\ BoardJustChanged
        /\ Searchable(board)
        /\ op' = Call("AIPlayer.minimax", number, "hard", depth, isMaximizing)
        /\ UNCHANGED tournament
        /\ UNCHANGED server
        /\ board' = r.board
        /\ ret' = r.score
        /\ UNCHANGED gameVars

\* A standalone board, or a HexGame in mode human-vs-human on its own board.
\* The parallelogram shape has the predicate of the hexagon shape and is left
\* to SpecBoard.
InitAI ==
    /\ \E size \in 1 .. MaxSize, shape \in Shapes \ {"parallelogram"} :
          board = NewHexBoard(size, shape)
    /\ gameMode \in {"none", "human-vs-human"}
    /\ currentPlayerIndex = 0
    /\ gameOver = FALSE
    /\ winner = 0
    /\ moveHistory = <<>>
    /\ op = Call("new HexBoard", 0, "", 0, FALSE)
    /\ tournament = NoTournament
    /\ server = NoServer
    /\ ret = Null

\* A board is built by placements and then handed to one call of the AIPlayer.
PlaceEmpty ==
    \E rc \in Coords(board.size), playerNumber \in Players :
        /\ BoardJustChanged
        /\ board.board[rc] = Empty
        /\ HexBoard_makeMove(rc[1], rc[2], playerNumber)

\* HexGame.makeMove on every coordinate of the grid and on one coordinate
\* beyond each of its sides.
PlayGame ==
    \E rc \in Probes(board.size) :
        /\ Len(moveHistory) < MaxGameMoves
        /\ HexGame_makeMove(rc[1], rc[2])

\* getMoveHints(count = 3)
AskHints == HexGame_getMoveHints(3)

AskMove ==
    \E number \in Players, difficulty \in Difficulties :
        AIPlayer_makeMove(number, difficulty)

AskMinimax ==
    \E number \in Players, depth \in 0 .. MaxDirectDepth, isMaximizing \in BOOLEAN :
        AIPlayer_minimax(number, depth, isMaximizing)

NextAI == PlaceEmpty \/ PlayGame \/ AskHints \/ AskMove \/ AskMinimax

SpecAI == InitAI /\ [][NextAI]_vars

(* ------------------------- games played to the end -------------------- *)

\* reset leaving gameOver and winner as they were.
HexGame_resetBoardOnly ==
    /\ gameMode # "none"
    /\ op' = Call("HexGame.reset", 0, "", 0, FALSE)
    /\ UNCHANGED tournament
    /\ UNCHANGED server
    /\ ret' = Null
    /\ board' = NewHexBoard(board.size, "hexagon")
    /\ currentPlayerIndex' = 0
    /\ moveHistory' = <<>>
    /\ UNCHANGED <<gameMode, gameOver, winner>>

\* HexGame.reset(): the board is rebuilt by new HexBoard(this.board.size), so
\* with the default shape 'hexagon'.
HexGame_reset ==
    /\ gameMode # "none"
    /\ op' = Call("HexGame.reset", 0, "", 0, FALSE)
    /\ UNCHANGED tournament
    /\ UNCHANGED server
    /\ ret' = Null
    /\ board' = NewHexBoard(board.size, "hexagon")
    /\ currentPlayerIndex' = 0
    /\ gameOver' = FALSE
    /\ winner' = 0
    /\ moveHistory' = <<>>
    /\ UNCHANGED gameMode

\* new HexGame(size, 'human-vs-human', shape) for every size and shape; the
\* parallelogram, whose predicate is the hexagon's, up to size MaxSize - 1.
InitGame ==
    /\ \E size \in 1 .. MaxSize, shape \in Shapes :
          /\ shape = "parallelogram" => size < MaxSize
          /\ board = NewHexBoard(size, shape)
    /\ gameMode = "human-vs-human"
    /\ currentPlayerIndex = 0
    /\ gameOver = FALSE
    /\ winner = 0
    /\ moveHistory = <<>>
    /\ op = Call("new HexGame", 0, "", 0, FALSE)
    /\ tournament = NoTournament
    /\ server = NoServer
    /\ ret = Null

\* HexGame.makeMove on the empty cells while the game runs, and on every
\* coordinate of the grid and one beyond each of its sides once it is over
\* (the calls a running game refuses are those of PlayGame).
PlayOn ==
    \E rc \in Probes(board.size) :
        /\ gameOver \/ (rc \in Coords(board.size) /\ board.board[rc] = Empty)
        /\ HexGame_makeMove(rc[1], rc[2])

ResetGame == HexGame_reset

NextGame == PlayOn \/ ResetGame

SpecGame == InitGame /\ [][NextGame]_vars

(* ------------------- search depth of makeMinimaxMove ------------------ *)

\* The head of makeMinimaxMove: null without an empty cell, else the depth
\* it chooses from emptyCells.length.  The depth is a local of the method;
\* it is returned here in place of the move the search then makes.
AIPlayer_maxDepth(number) ==
    LET emptyCells == getEmptyCells(board)
    IN  /\ gameMode = "none"
        /\ op' = Call("AIPlayer.maxDepth", number, "hard", 0, FALSE)
        /\ UNCHANGED tournament
        /\ UNCHANGED server
        /\ ret' = IF Len(emptyCells) = 0 THEN Null ELSE maxDepthFor(emptyCells)
        /\ UNCHANGED <<board, gameVars>>

\* Boards of size 1 .. MaxDepthSize of every shape.
InitDepth ==
    /\ \E size \in 1 .. MaxDepthSize, shape \in Shapes :
          board = NewHexBoard(size, shape)
    /\ gameMode = "none"
    /\ currentPlayerIndex = 0
    /\ gameOver = FALSE
    /\ winner = 0
    /\ moveHistory = <<>>
    /\ op = Call("new HexBoard", 0, "", 0, FALSE)
    /\ tournament = NoTournament
    /\ server = NoServer
    /\ ret = Null

\* The two sides place in turn on the first empty cell in row-major order.
FillNext ==
    LET emptyCells == getEmptyCells(board)
        owned      == Cardinality({rc \in Coords(board.size) : board.board[rc] \in Players})
    IN  /\ Len(emptyCells) > 0
        /\ HexBoard_makeMove(emptyCells[1][1], emptyCells[1][2], (owned % 2) + 1)

AskDepth == \E number \in Players : AIPlayer_maxDepth(number)

NextDepth == FillNext \/ AskDepth

SpecDepth == InitDepth /\ [][NextDepth]_vars

(* ------------------ HexGame.makeMove as a function ------------------- *)

\* The fields of a HexGame object.
GameOf(b, mode, index, over, won, history) ==
    [board |-> b, gameMode |-> mode, currentPlayerIndex |-> index,
     gameOver |-> over, winner |-> won, moveHistory |-> history]

ThisGame == GameOf(board, gameMode, currentPlayerIndex, gameOver, winner, moveHistory)

\* game.makeMove(row, col) on the game object g: the object after the call
\* and the result the call returns.
gameMakeMove(g, row, col) ==
    IF g.gameOver
    THEN [game |-> g,
          result |-> [success |-> FALSE, message |-> "Game is already over",
                      gameOver |-> FALSE]]
    ELSE IF ~isValidPosition(g.board, row, col)
    THEN [game |-> g,
          result |-> [success |-> FALSE, message |-> "Invalid position",
                      gameOver |-> FALSE]]
    ELSE IF ~isEmpty(g.board, getCell(g.board, row, col))
    THEN [game |-> g,
          result |-> [success |-> FALSE, message |-> "Position already occupied",
                      gameOver |-> FALSE]]
    ELSE LET number  == playerNumberAt(g.currentPlayerIndex)
             moved   == makeMove(g.board, row, col, number).board
             history == Append(g.moveHistory,
                            [player |-> number, row |-> row, col |-> col,
                             move |-> Len(g.moveHistory) + 1])
         IN  IF checkWin(moved, number)
             THEN [game |-> [g EXCEPT !.board = moved, !.moveHistory = history,
                                      !.gameOver = TRUE, !.winner = number],
                   result |-> [success |-> TRUE, message |-> "wins!",
                               gameOver |-> TRUE]]
             ELSE IF Len(getEmptyCells(moved)) = 0
             THEN [game |-> [g EXCEPT !.board = moved, !.moveHistory = history,
                                      !.gameOver = TRUE],
                   result |-> [success |-> TRUE, message |-> "Game ends in a draw!",
                               gameOver |-> TRUE]]
             ELSE [game |-> [g EXCEPT !.board = moved, !.moveHistory = history,
                                      !.currentPlayerIndex = 1 - g.currentPlayerIndex],
                   result |-> [success |-> TRUE, message |-> "Move successful",
                               gameOver |-> FALSE]]

\* new HexGame(boardSize, gameMode, boardShape); the players are side 1 and
\* side 2, at index 0 and 1.
newHexGame(boardSize, mode, boardShape) ==
    GameOf(NewHexBoard(boardSize, boardShape), mode, 0, FALSE, 0, <<>>)

\* The variables of the game become the fields of the game object g.
GameBecomes(g) ==
    /\ board' = g.board
    /\ gameMode' = g.gameMode
    /\ currentPlayerIndex' = g.currentPlayerIndex
    /\ gameOver' = g.gameOver
    /\ winner' = g.winner
    /\ moveHistory' = g.moveHistory

\* getBoardState reads cell.player of every coordinate of the grid; getCell
\* is null on a coordinate the shape excludes and the read throws a TypeError.
getBoardStateThrows(b) ==
    \E rc \in Coords(b.size) : getCell(b, rc[1], rc[2]) = Null

(* --------------------------- save and load --------------------------- *)

\* What saveGame returns or throws, and what loadGame returns.
Thrown(error) == [error |-> error, value |-> Null]

Returned(value) == [error |-> "", value |-> value]

\* game.getBoardState(): the owner of every coordinate of the grid, row by
\* row; the read of cell.player throws where getCell is null.
getBoardState(b) ==
    IF getBoardStateThrows(b) THEN Thrown("TypeError")
    ELSE Returned([rc \in Coords(b.size) |-> player(b, getCell(b, rc[1], rc[2]))])

\* game.saveGame(): the fields written to the JSON text that loadGame reads
\* back, and finalBoardState from getBoardState, which throws on a board with
\* an excluded coordinate.  The shape of the board is not written.
saveGame(g) ==
    LET state == getBoardState(g.board)
    IN  IF state.error # "" THEN state
        ELSE Returned([boardSize |-> g.board.size,
                       gameMode |-> g.gameMode,
                       moveHistory |-> g.moveHistory,
                       gameOver |-> g.gameOver,
                       winner |-> g.winner,
                       finalBoardState |-> state.value])

RECURSIVE replayMoves(_, _, _)
\* for (const move of gameData.moveHistory) game.makeMove(move.row, move.col)
replayMoves(g, moves, i) ==
    IF i > Len(moves) THEN g
    ELSE replayMoves(gameMakeMove(g, moves[i].row, moves[i].col).game, moves, i + 1)

\* HexGame.loadGame(jsonData): new HexGame(boardSize, gameMode), so a board of
\* the default shape, and the saved moves made again.
loadGame(gameData) ==
    replayMoves(newHexGame(gameData.boardSize, gameData.gameMode, "hexagon"),
                gameData.moveHistory, 1)

\* HexGame.loadGame(game.saveGame())
HexGame_loadSaved ==
    LET saved == saveGame(ThisGame)
    IN  /\ gameMode # "none"
        /\ op' = Call("HexGame.loadGame", 0, "", 0, FALSE)
        /\ UNCHANGED tournament
        /\ UNCHANGED server
        /\ ret' = IF saved.error # "" THEN saved ELSE Returned(loadGame(saved.value))
        /\ UNCHANGED <<board, gameVars>>

SaveModes == {"human-vs-human", "human-vs-ai"}

\* new HexGame(size, mode, shape) for every size and shape.
InitSave ==
    /\ \E size \in 1 .. MaxSize, shape \in Shapes : board = NewHexBoard(size, shape)
    /\ gameMode \in SaveModes
    /\ currentPlayerIndex = 0
    /\ gameOver = FALSE
    /\ winner = 0
    /\ moveHistory = <<>>
    /\ op = Call("new HexGame", 0, "", 0, FALSE)
    /\ tournament = NoTournament
    /\ server = NoServer
    /\ ret = Null

LoadSaved == HexGame_loadSaved

NextSave == PlayGame \/ LoadSaved

SpecSave == InitSave /\ [][NextSave]_vars

(* ----------------------- HexMultiplayerServer ------------------------ *)

MaxServerSize == 2

Sockets == {"s1", "s2", "s3"}

\* The id the server gave the session it holds, and an id it never gave.
GameIds == {"g1", "g2"}

ServerShapes == {"hexagon", "diamond"}

CreateModes == {"human-vs-ai", "human-vs-ai-hard", "human-vs-human"}

\* A server that holds no session: activeGames and waitingPlayers are empty.
NewServer ==
    [up |-> TRUE, active |-> FALSE, players |-> <<>>, spectators |-> {},
     waiting |-> <<>>, timer |-> FALSE]

\* No game object is held.
NoGame == GameOf(NewHexBoard(1, "hexagon"), "none", 0, FALSE, 0, <<>>)

ServerCall(name, socket, gameId) ==
    [name |-> name, socket |-> socket, gameId |-> gameId]

\* The last event the handler emitted, or the error it threw.
ServerEvent(event, message) == [event |-> event, message |-> message]

\* this.activeGames.get(gameId)
hasSession(srv, gameId) == srv.active /\ gameId = "g1"

\* findIndex answering with the first player of the session for every socket.
findIndexOfAnyone(players, id) == IF Len(players) > 0 THEN 0 ELSE 0 - 1

\* gameSession.players.findIndex(p => p.id === socket.id)
findIndex(players, id) ==
    IF \E i \in 1 .. Len(players) : players[i] = id
    THEN (CHOOSE i \in 1 .. Len(players) :
             /\ players[i] = id
             /\ \A j \in 1 .. i - 1 : players[j] # id) - 1
    ELSE 0 - 1

\* A handler that calls getGameState on board b: it emits the event and the
\* server is srv, or the TypeError of getBoardState leaves the handler with the
\* server as it was at the call, thrown; the exception is caught by no code of
\* the repository, so the process ends or goes on.
EmitsState(srv, thrown, b, event) ==
    IF getBoardStateThrows(b)
    THEN /\ ret' = ServerEvent("TypeError", "")
         /\ \E up \in BOOLEAN : server' = [thrown EXCEPT !.up = up]
    ELSE /\ ret' = ServerEvent(event, "")
         /\ server' = srv

ServerUp == server # NoServer /\ server.up

\* socket.on('make-move', {gameId, row, col})
Server_handleMakeMove(socket, gameId, row, col) ==
    /\ ServerUp
    /\ op' = ServerCall("make-move", socket, gameId)
    /\ UNCHANGED tournament
    /\ IF ~hasSession(server, gameId)
       THEN /\ ret' = ServerEvent("error", "Game not found")
            /\ UNCHANGED <<board, gameVars, server>>
       ELSE LET playerIndex == findIndex(server.players, socket)
            IN  IF playerIndex = 0 - 1 \/ playerIndex # currentPlayerIndex
                THEN /\ ret' = ServerEvent("error", "Not your turn")
                     /\ UNCHANGED <<board, gameVars, server>>
                ELSE LET r == gameMakeMove(ThisGame, row, col)
                     IN  /\ GameBecomes(r.game)
                         /\ IF ~r.result.success
                            THEN /\ ret' = ServerEvent("error", r.result.message)
                                 /\ UNCHANGED server
                            ELSE IF r.result.gameOver
                            THEN EmitsState([server EXCEPT !.timer = TRUE], server,
                                            r.game.board, "game-ended")
                            ELSE EmitsState(server, server,
                                            r.game.board, "move-made")

\* handleGameEnd's setTimeout callback: this.activeGames.delete(gameId)
Server_gameEndTimeout ==
    /\ ServerUp
    /\ server.timer
    /\ op' = ServerCall("timeout", "", "g1")
    /\ UNCHANGED tournament
    /\ ret' = ServerEvent("", "")
    /\ server' = [server EXCEPT !.active = FALSE, !.players = <<>>,
                                !.spectators = {}, !.timer = FALSE]
    /\ GameBecomes(NoGame)

\* socket.on('create-game', {playerName, boardSize, boardShape, gameMode})
Server_handleCreateGame(socket, boardSize, boardShape, mode) ==
    LET game == newHexGame(boardSize, mode, boardShape)
        srv  == [server EXCEPT !.active = TRUE, !.players = << socket >>,
                               !.spectators = {}, !.timer = FALSE]
    IN  /\ ServerUp
        /\ ~server.active
        /\ op' = ServerCall("create-game", socket, "g1")
        /\ UNCHANGED tournament
        /\ GameBecomes(game)
        /\ EmitsState(srv, srv, game.board, "game-created")

\* socket.on('join-game', {gameId, playerName})
Server_handleJoinGame(socket, gameId) ==
    /\ ServerUp
    /\ op' = ServerCall("join-game", socket, gameId)
    /\ UNCHANGED tournament
    /\ UNCHANGED <<board, gameVars>>
    /\ IF ~hasSession(server, gameId)
       THEN /\ ret' = ServerEvent("error", "Game not found")
            /\ UNCHANGED server
       ELSE LET srv == [server EXCEPT !.spectators = @ \cup {socket}]
            IN  EmitsState(srv, srv, board, "joined-game")

\* The pairs tryMatchPlayers tests, and the first compatible one in the order
\* of its two loops.
compatiblePairs(waiting) ==
    { ij \in (1 .. Len(waiting)) \X (1 .. Len(waiting)) :
        /\ ij[1] < ij[2]
        /\ waiting[ij[1]].boardSize = waiting[ij[2]].boardSize
        /\ waiting[ij[1]].boardShape = waiting[ij[2]].boardShape }

firstPair(pairs) ==
    CHOOSE ij \in pairs :
        \A kl \in pairs : ij[1] < kl[1] \/ (ij[1] = kl[1] /\ ij[2] <= kl[2])

\* waitingPlayers.splice(j, 1); waitingPlayers.splice(i, 1)
splicePair(waiting, i, j) ==
    [k \in 1 .. Len(waiting) - 2 |->
        IF k < i THEN waiting[k]
        ELSE IF k + 1 < j THEN waiting[k + 1]
        ELSE waiting[k + 2]]

\* socket.on('join-queue', {playerName, boardSize, boardShape}): the socket
\* leaves the queue, is pushed at its end, and tryMatchPlayers runs.
Server_handleJoinQueue(socket, boardSize, boardShape) ==
    LET waiting == Append(SelectSeq(server.waiting, LAMBDA p : p.id # socket),
                          [id |-> socket, boardSize |-> boardSize,
                           boardShape |-> boardShape])
        pairs   == compatiblePairs(waiting)
    IN  /\ ServerUp
        /\ ~server.active
        /\ op' = ServerCall("join-queue", socket, "g1")
        /\ UNCHANGED tournament
        /\ IF Len(waiting) < 2 \/ pairs = {}
           THEN /\ ret' = ServerEvent("queue-joined", "")
                /\ server' = [server EXCEPT !.waiting = waiting]
                /\ UNCHANGED <<board, gameVars>>
           ELSE LET ij      == firstPair(pairs)
                    player1 == waiting[ij[1]]
                    player2 == waiting[ij[2]]
                    game    == newHexGame(player1.boardSize, "online-multiplayer",
                                          player1.boardShape)
                    started == [server EXCEPT
                                   !.active = TRUE,
                                   !.players = << player1.id, player2.id >>,
                                   !.spectators = {}, !.timer = FALSE,
                                   !.waiting = waiting]
                IN  /\ GameBecomes(game)
                    /\ EmitsState([started EXCEPT
                                      !.waiting = splicePair(waiting, ij[1], ij[2])],
                                  started, game.board, "game-started")

InitServer ==
    /\ server = NewServer
    /\ board = NoGame.board
    /\ gameMode = NoGame.gameMode
    /\ currentPlayerIndex = 0
    /\ gameOver = FALSE
    /\ winner = 0
    /\ moveHistory = <<>>
    /\ op = ServerCall("new HexMultiplayerServer", "", "")
    /\ tournament = NoTournament
    /\ ret = ServerEvent("", "")

CreateGame ==
    \E socket \in Sockets, boardSize \in 1 .. MaxServerSize,
       boardShape \in ServerShapes, mode \in CreateModes :
        Server_handleCreateGame(socket, boardSize, boardShape, mode)

\* The queue is joined for boards of size MaxServerSize of either shape.
JoinQueue ==
    \E socket \in Sockets, boardShape \in ServerShapes :
        Server_handleJoinQueue(socket, MaxServerSize, boardShape)

\* One spectator at a time joins the game.
JoinGame ==
    \E socket \in Sockets, gameId \in GameIds :
        /\ server.spectators \subseteq {socket}
        /\ Server_handleJoinGame(socket, gameId)

\* make-move on every coordinate of the grid and one beyond each of its sides,
\* by every socket, for both ids.
RequestMove ==
    \E socket \in Sockets, gameId \in GameIds, rc \in Probes(board.size) :
        Server_handleMakeMove(socket, gameId, rc[1], rc[2])

GameEndTimeout == Server_gameEndTimeout

NextServer == CreateGame \/ JoinQueue \/ JoinGame \/ RequestMove \/ GameEndTimeout

SpecServer == InitServer /\ [][NextServer]_vars

(* ----------------------------- Tournament ----------------------------- *)

\* A participant as the callers hand it to new Tournament.
Participant(name, isHuman, difficulty) ==
    [name |-> name, isHuman |-> isHuman, difficulty |-> difficulty]

\* An entry of this.games.
ScheduledGame(player1, player2, gameId, round) ==
    [player1 |-> player1, player2 |-> player2, gameId |-> gameId, round |-> round,
     completed |-> FALSE, result |-> Null]

RECURSIVE roundRobinOnce(_, _, _, _)
\* A schedule in which each pair meets once only, without the game with the
\* colors swapped.
roundRobinOnce(participants, i, j, games) ==
    IF i > Len(participants) THEN games
    ELSE IF j > Len(participants)
    THEN roundRobinOnce(participants, i + 1, i + 2, games)
    ELSE roundRobinOnce(participants, i, j + 1,
             Append(games, ScheduledGame(participants[i], participants[j],
                                         Len(games) + 1, 1)))

RECURSIVE roundRobinFrom(_, _, _, _)
\* The two loops of generateRoundRobinSchedule (i and j count from 1 here).
roundRobinFrom(participants, i, j, games) ==
    IF i > Len(participants) THEN games
    ELSE IF j > Len(participants)
    THEN roundRobinFrom(participants, i + 1, i + 2, games)
    ELSE roundRobinFrom(participants, i, j + 1,
             games \o << ScheduledGame(participants[i], participants[j],
                                       Len(games) + 1, 1),
                         ScheduledGame(participants[j], participants[i],
                                       Len(games) + 2, 2) >>)

generateRoundRobinSchedule(participants) ==
    roundRobinFrom(participants, 1, 2, <<>>)

RECURSIVE eliminationRound(_, _, _, _, _)
\* The for loop of generateSingleEliminationSchedule over one round: the games
\* pushed and the participants of the next round, which are the byes only.
eliminationRound(current, i, round, games, nextRound) ==
    IF i > Len(current) THEN [games |-> games, nextRound |-> nextRound]
    ELSE IF i + 1 <= Len(current)
    THEN eliminationRound(current, i + 2, round,
             Append(games, ScheduledGame(current[i], current[i + 1],
                                         Len(games) + 1, round)),
             nextRound)
    ELSE eliminationRound(current, i + 2, round, games,
                          Append(nextRound, current[i]))

RECURSIVE eliminationFrom(_, _, _)
\* The while loop of generateSingleEliminationSchedule.
eliminationFrom(current, round, games) ==
    IF ~(Len(current) > 1) THEN games
    ELSE LET r == eliminationRound(current, 1, round, games, <<>>)
         IN  eliminationFrom(r.nextRound, round + 1, r.games)

generateSingleEliminationSchedule(participants) ==
    eliminationFrom(participants, 1, <<>>)

\* generateSwissSchedule: the pairs of the first round.
generateSwissSchedule(participants) ==
    eliminationRound(participants, 1, 1, <<>>, <<>>).games

Formats == {"round-robin", "single-elimination", "swiss"}

generateSchedule(format, participants) ==
    CASE format = "round-robin"        -> generateRoundRobinSchedule(participants)
      [] format = "single-elimination" -> generateSingleEliminationSchedule(participants)
      [] format = "swiss"              -> generateSwissSchedule(participants)

\* organizegamesIntoRounds, called for the round-robin format: the gameIds of
\* each round.
organizegamesIntoRounds(games) ==
    [round \in { games[k].round : k \in 1 .. Len(games) } |->
        SelectSeq([k \in 1 .. Len(games) |-> games[k].gameId],
                  LAMBDA id : games[id].round = round)]

NoStats == [wins |-> 0, losses |-> 0, draws |-> 0, points |-> 0, gamesPlayed |-> 0]

\* initializeResults
initializeResults(participants) ==
    [name \in { participants[k].name : k \in 1 .. Len(participants) } |-> NoStats]

\* new Tournament(name, participants, format); playing is the index of the
\* game a playGame call is working on, -1 when no call is running.
NewTournament(participants, format) ==
    LET games == generateSchedule(format, participants)
    IN  [format |-> format,
         participants |-> participants,
         games |-> games,
         results |-> initializeResults(participants),
         standings |-> <<>>,
         completed |-> FALSE,
         rounds |-> IF format = "round-robin" THEN organizegamesIntoRounds(games)
                    ELSE <<>>,
         playing |-> 0 - 1]

\* updateResults(gameInfo), with the number of result.winner, 0 for null.
updateResults(results, gameInfo, won) ==
    LET name1  == gameInfo.player1.name
        name2  == gameInfo.player2.name
        played == [results EXCEPT ![name1].gamesPlayed = @ + 1,
                                  ![name2].gamesPlayed = @ + 1]
    IN  IF won # 0
        THEN IF won = 1
             THEN [played EXCEPT ![name1].wins = @ + 1, ![name1].points = @ + 3,
                                 ![name2].losses = @ + 1]
             ELSE [played EXCEPT ![name2].wins = @ + 1, ![name2].points = @ + 3,
                                 ![name1].losses = @ + 1]
        ELSE [played EXCEPT ![name1].draws = @ + 1, ![name1].points = @ + 1,
                            ![name2].draws = @ + 1, ![name2].points = @ + 1]

\* (wins / gamesPlayed * 100).toFixed(1), in tenths.
winRate(stats) ==
    IF stats.gamesPlayed > 0
    THEN (2000 * stats.wins + stats.gamesPlayed) \div (2 * stats.gamesPlayed)
    ELSE 0

\* The comparison of the standings sort: a stays before b.
staysBefore(a, b) ==
    IF b.points # a.points THEN b.points - a.points <= 0
    ELSE b.winRate - a.winRate <= 0

RECURSIVE insertStanding(_, _)
insertStanding(sorted, x) ==
    IF sorted = <<>> THEN << x >>
    ELSE IF staysBefore(sorted[1], x)
    THEN << sorted[1] >> \o insertStanding(SubSeq(sorted, 2, Len(sorted)), x)
    ELSE << x >> \o sorted

RECURSIVE sortStandings(_, _, _)
sortStandings(entries, k, sorted) ==
    IF k > Len(entries) THEN sorted
    ELSE sortStandings(entries, k + 1, insertStanding(sorted, entries[k]))

\* updateStandings: the entries in the order of Object.keys(this.results),
\* which is the order of the participants, sorted.
updateStandings(participants, results) ==
    sortStandings([k \in 1 .. Len(participants) |->
                      [name |-> participants[k].name,
                       stats |-> results[participants[k].name],
                       points |-> results[participants[k].name].points,
                       winRate |-> winRate(results[participants[k].name])]],
                  1, <<>>)

TournamentCall(name, gameIndex) ==
    [name |-> name, gameIndex |-> gameIndex, iteration |-> 0]

\* The position of playGame inside its while loop: the iteration that runs
\* after `iteration` moves have been accepted.
LoopCall(gameIndex, iteration) ==
    [name |-> "Tournament.playGame: loop", gameIndex |-> gameIndex,
     iteration |-> iteration]

CallRuns == tournament # NoTournament /\ tournament.playing # 0 - 1

\* playGame(gameIndex, boardSize, boardShape) up to the test for two computer
\* players: the two throws, and the game it creates.
Tournament_playGame(gameIndex, boardSize, boardShape) ==
    /\ tournament # NoTournament
    /\ tournament.playing = 0 - 1
    /\ op' = TournamentCall("Tournament.playGame", gameIndex)
    /\ UNCHANGED server
    /\ IF gameIndex >= Len(tournament.games)
       THEN /\ ret' = Thrown("Invalid game index")
            /\ UNCHANGED <<board, gameVars, tournament>>
       ELSE IF tournament.games[gameIndex + 1].completed
       THEN /\ ret' = Thrown("Game already completed")
            /\ UNCHANGED <<board, gameVars, tournament>>
       ELSE /\ ret' = Null
            /\ GameBecomes(newHexGame(boardSize, "tournament", boardShape))
            /\ tournament' = [tournament EXCEPT !.playing = gameIndex]

\* The game playGame works on and the participant whose turn it is.
gameInfoPlayed == tournament.games[tournament.playing + 1]

bothComputers == ~gameInfoPlayed.player1.isHuman /\ ~gameInfoPlayed.player2.isHuman

\* createTournamentPlayer: participant.difficulty || 'medium'
difficultyOf(participant) ==
    IF participant.difficulty = "" THEN "medium" ELSE participant.difficulty

\* A loop body that never calls game.makeMove.
playMoveNever(g, move) == [game |-> g, result |-> Null]

\* game.makeMove(move.row, move.col) when the move is not null.
playMove(g, move) ==
    IF move = Null THEN [game |-> g, result |-> Null]
    ELSE gameMakeMove(g, move[1], move[2])

\* The moves currentPlayer.makeMove(game.board) can return, r being the
\* outcome of aiMakeMove: any empty cell where it is the random pick.
movesOf(r, emptyCells) ==
    IF r.move = RandomPick THEN { emptyCells[k] : k \in 1 .. Len(emptyCells) }
    ELSE { r.move }

\* The body of the loop on the game g: the board is as the player's makeMove
\* leaves it, then the move is made.
autoPlayOutcomes(g, r) ==
    { playMove([g EXCEPT !.board = r.board], move) :
        move \in movesOf(r, getEmptyCells(g.board)) }

\* The participant whose turn it is in the game playGame works on.
currentParticipant ==
    IF currentPlayerIndex = 0 THEN gameInfoPlayed.player1 ELSE gameInfoPlayed.player2

\* One iteration of while (!game.gameOver): the current player's makeMove on
\* the board, and game.makeMove with the move when it is not null.
Tournament_autoPlay ==
    /\ CallRuns
    /\ bothComputers
    /\ ~gameOver
    /\ op' = LoopCall(tournament.playing, Len(moveHistory))
    /\ UNCHANGED <<server, tournament>>
    /\ \E o \in autoPlayOutcomes(ThisGame,
                   aiMakeMove(board, playerNumberAt(currentPlayerIndex),
                              difficultyOf(currentParticipant))) :
          /\ GameBecomes(o.game)
          /\ ret' = o.result

\* playGame after the loop: gameInfo.completed is set, the result is built
\* (saveGame may throw, which leaves result null and the results untouched),
\* then updateResults and updateStandings.
Tournament_recordResult ==
    LET saved    == saveGame(ThisGame)
        k        == tournament.playing + 1
        done     == [tournament EXCEPT !.games[k].completed = TRUE,
                                       !.playing = 0 - 1]
        result   == [winner |-> winner, moveCount |-> Len(moveHistory),
                     gameData |-> saved.value]
        recorded == [done EXCEPT !.games[k].result = result]
        results  == updateResults(tournament.results, recorded.games[k], winner)
    IN  /\ CallRuns
        /\ bothComputers => gameOver
        /\ op' = TournamentCall("Tournament.playGame: record", tournament.playing)
        /\ UNCHANGED <<server, board, gameVars>>
        /\ IF saved.error # ""
           THEN /\ ret' = saved
                /\ tournament' = done
           ELSE /\ ret' = Returned(recorded.games[k])
                /\ tournament' =
                      [recorded EXCEPT
                          !.results = results,
                          !.standings = updateStandings(tournament.participants, results),
                          !.completed = \A g \in 1 .. Len(recorded.games) :
                                            recorded.games[g].completed]

Kinds == {"human", "easy", "medium", "hard"}

\* The participant named name of a kind: a human, or a computer of a difficulty.
ParticipantOf(name, kind) ==
    IF kind = "human" THEN Participant(name, TRUE, "")
    ELSE Participant(name, FALSE, kind)

\* The boards the games are played on: every shape up to size 2, and the
\* diamond of size MaxSize.
TournamentBoards ==
    ((1 .. 2) \X Shapes) \cup ({MaxSize} \X {"diamond"})

\* new Tournament(name, [a, b], format) for two participants of every kind.
InitTournament ==
    /\ \E kindA \in Kinds, kindB \in Kinds, format \in Formats :
          tournament = NewTournament(<< ParticipantOf("a", kindA),
                                        ParticipantOf("b", kindB) >>, format)
    /\ board = NoGame.board
    /\ gameMode = NoGame.gameMode
    /\ currentPlayerIndex = 0
    /\ gameOver = FALSE
    /\ winner = 0
    /\ moveHistory = <<>>
    /\ server = NoServer
    /\ op = TournamentCall("new Tournament", 0 - 1)
    /\ ret = Null

\* playGame for every index up to the length of the schedule.
StartGame ==
    \E gameIndex \in 0 .. Len(tournament.games), b \in TournamentBoards :
        Tournament_playGame(gameIndex, b[1], b[2])

NextTournament == StartGame \/ Tournament_autoPlay \/ Tournament_recordResult

SpecTournament == InitTournament /\ [][NextTournament]_vars

\* The loop test of playGame followed by the entry into the next iteration.
\* Every Tournament_autoPlay step is such a step, and the iteration it enters is a new
\* one exactly when the move of the iteration before was accepted.
LoopStep ==
    /\ CallRuns /\ bothComputers /\ ~gameOver
    /\ op' = LoopCall(tournament.playing, Len(moveHistory))

\* The loop of playGame is not suspended: it has no await, so an iteration
\* that is due is run.
SpecTournamentFair == SpecTournament /\ WF_op(LoopStep)

(* ------------------ Tournament: schedules of any length ---------------- *)

MaxParticipants == 4

\* new Tournament(name, participants, format) for up to MaxParticipants
\* computer participants, every format.
InitSchedule ==
    /\ \E n \in 0 .. MaxParticipants, format \in Formats :
          tournament = NewTournament([k \in 1 .. n |->
                                         ParticipantOf(<< "a", "b", "c", "d" >>[k], "easy")],
                                     format)
    /\ board = NoGame.board
    /\ gameMode = NoGame.gameMode
    /\ currentPlayerIndex = 0
    /\ gameOver = FALSE
    /\ winner = 0
    /\ moveHistory = <<>>
    /\ server = NoServer
    /\ op = TournamentCall("new Tournament", 0 - 1)
    /\ ret = Null

\* playGame(gameIndex, 1) for every index up to the length of the schedule.
StartScheduled ==
    \E gameIndex \in 0 .. Len(tournament.games) :
        Tournament_playGame(gameIndex, 1, "hexagon")

NextSchedule == StartScheduled \/ Tournament_autoPlay \/ Tournament_recordResult

SpecSchedule == InitSchedule /\ [][NextSchedule]_vars

(* ------------------------- claims on HexBoard ------------------------- *)

\* The six-offset adjacency of the data model, stated on coordinates.
AdjacentCoords(a, c) ==
    <<c[1] - a[1], c[2] - a[2]>> \in
        { <<0 - 1, 0>>, <<0 - 1, 1>>, <<0, 1>>, <<1, 0>>, <<1, 0 - 1>>, <<0, 0 - 1>> }

\* Axis coordinate of a cell for a side: the row for side 1, the column for side 2.
Axis(side, c) == IF side = 1 THEN c[1] ELSE c[2]

OwnedCells(b, side) == { c \in Coords(b.size) : b.board[c] = side }

RECURSIVE ChainClosure(_, _, _)
\* The cells of `side` joined to `reached` by chains of adjacent cells of `side`.
ChainClosure(b, side, reached) ==
    LET more == { c \in OwnedCells(b, side) \ reached :
                    \E a \in reached : AdjacentCoords(a, c) }
    IN  IF more = {} THEN reached ELSE ChainClosure(b, side, reached \cup more)

\* A chain of cells of `side` runs from axis coordinate 0 to axis coordinate size-1.
HasChain(b, side) ==
    \E c \in ChainClosure(b, side, { s \in OwnedCells(b, side) : Axis(side, s) = 0 }) :
        Axis(side, c) = b.size - 1

PlayableEmpty(b, row, col) ==
    /\ row \in 0 .. b.size - 1
    /\ col \in 0 .. b.size - 1
    /\ isCellValidForShape(b.size, b.shape, row, col)
    /\ b.board[<<row, col>>] = Empty

\* C1: HexBoard.makeMove(row, col, side) returns true and sets the owner of
\* exactly that cell iff (row, col) is in bounds, playable and empty;
\* otherwise it returns false and no cell of the board changes.
C1_MakeMoveContract ==
    [][\A rc \in Probes(board.size), playerNumber \in Players :
          HexBoard_makeMove(rc[1], rc[2], playerNumber) =>
              IF PlayableEmpty(board, rc[1], rc[2])
              THEN /\ ret' = TRUE
                   /\ board'.board[rc] = playerNumber
                   /\ \A c \in Coords(board.size) \ {rc} :
                          board'.board[c] = board.board[c]
                   /\ board'.size = board.size /\ board'.shape = board.shape
              ELSE ret' = FALSE /\ board' = board]_vars

\* C1 witness: a placement was refused on a board that already has an owned cell.
C1_Witness ==
    /\ op.name = "HexBoard.makeMove" /\ ret = FALSE
    /\ \E c \in Coords(board.size) : board.board[c] \in Players
    /\ \E c \in Coords(board.size) : board.board[c] = NoCell

\* C2: checkWin(1) is true exactly when a chain of side-1 cells joins row 0
\* to row N-1, and checkWin(2) exactly when a chain of side-2 cells joins
\* column 0 to column N-1.
C2_CheckWinIsChain ==
    \A side \in Players : checkWin(board, side) = HasChain(board, side)

\* C2 witness: a size-3 board where side 1 wins through a bent chain.
C2_Witness ==
    /\ board.size = 3
    /\ checkWin(board, 1)
    /\ \A col \in 0 .. 2 : \E row \in 0 .. 2 : board.board[<<row, col>>] # 1

\* C3: at most one of checkWin(1) and checkWin(2) is true.
C3_NoSimultaneousWin == ~(checkWin(board, 1) /\ checkWin(board, 2))

\* C3 witness: a full board (no empty cell) of size 3 on which side 2 has won.
C3_Witness ==
    /\ board.size = 3
    /\ getEmptyCells(board) = <<>>
    /\ checkWin(board, 2)
    /\ OwnedCells(board, 1) # {}

\* C6: once checkWin(s) is true it stays true after any further successful
\* placement of either side.
C6_MonotonicWin ==
    [][\A side \in Players :
          (board' # board /\ checkWin(board, side)) => checkWin(board', side)]_vars

\* C6 witness: side 1 has won and the board holds a mark whose removal leaves
\* the win intact (a placement made on an already won board).
C6_Witness ==
    /\ checkWin(board, 1)
    /\ op.name = "HexBoard.makeMove" /\ ret = TRUE
    /\ \E c \in Coords(board.size) :
          /\ board.board[c] \in Players
          /\ checkWin([board EXCEPT !.board[c] = Empty], 1)

(* ------------------------- claims on AIPlayer ------------------------- *)

EmptyCoords(b) == { c \in Coords(b.size) : b.board[c] = Empty }

\* The board with the mark of `side` on coordinate c.
Place(b, c, side) == [b EXCEPT !.board[c] = side]

\* Row-major order of two coordinates.
RasterBefore(a, c) == a[1] < c[1] \/ (a[1] = c[1] /\ a[2] < c[2])

FirstInRaster(S) == CHOOSE c \in S : \A d \in S : c = d \/ RasterBefore(c, d)

SetMax(S) == CHOOSE x \in S : \A y \in S : y <= x

SetMin(S) == CHOOSE x \in S : \A y \in S : x <= y

RECURSIVE PlainValue(_, _, _, _)
\* The value of an exhaustive minimax search without pruning: the leaf rule
\* (own win, opponent win, full board, connectivity difference at depth 0)
\* and otherwise the best value over every empty cell.
PlainValue(b, number, depth, isMaximizing) ==
    IF checkWin(b, number) THEN 10000
    ELSE IF checkWin(b, opponentOf(number)) THEN 0 - 10000
    ELSE IF EmptyCoords(b) = {} THEN 0
    ELSE IF depth = 0
         THEN calculateConnectivity(b, number)
              - calculateConnectivity(b, opponentOf(number))
    ELSE IF isMaximizing
         THEN SetMax({ PlainValue(Place(b, c, number), number, depth - 1, FALSE) :
                       c \in EmptyCoords(b) })
         ELSE SetMin({ PlainValue(Place(b, c, opponentOf(number)), number,
                                  depth - 1, TRUE) : c \in EmptyCoords(b) })

\* The search depth by the number of empty cells.
DepthPolicy(n) == IF n > 20 THEN 3 ELSE IF n > 10 THEN 4 ELSE 5

\* The first empty cell, in row-major order, of strictly highest value.
PlainChoice(b, number) ==
    LET d == DepthPolicy(Cardinality(EmptyCoords(b)))
        v == [c \in EmptyCoords(b) |->
                 PlainValue(Place(b, c, number), number, d - 1, FALSE)]
        best == SetMax({ v[c] : c \in EmptyCoords(b) })
    IN  FirstInRaster({ c \in EmptyCoords(b) : v[c] = best })

\* The empty cells on which a mark of `side` makes checkWin(side) true.
WinningCells(b, side) ==
    { c \in EmptyCoords(b) : checkWin(Place(b, c, side), side) }

SpeculativeCalls == {"AIPlayer.makeMove", "AIPlayer.minimax", "HexGame.getMoveHints"}

\* C4: every operation that evaluates candidate moves on the live board
\* (AIPlayer.makeMove at each strength, makeMinimaxMove and minimax within
\* it, minimax called directly, HexGame.getMoveHints) leaves the owner of
\* every cell as it was at the start of the call.
C4_SpeculationRestoresBoard ==
    [][op'.name \in SpeculativeCalls => board' = board]_vars

\* C4 witness: a direct minimax call returned, one of whose loops was left by
\* the pruning break with cells still to visit.
C4_Witness ==
    /\ op.name = "AIPlayer.minimax"
    /\ minimax(board, op.number, op.depth, op.isMaximizing,
               0 - Infinity, Infinity).cut

\* C5: the coordinate makeMinimaxMove returns is the one an exhaustive
\* minimax without pruning selects, under the same depth, leaf rule, raster
\* order and first-seen-strictly-highest tie-break.
C5_PruningKeepsChoice ==
    (op.name = "AIPlayer.makeMove" /\ op.difficulty = "hard"
        /\ EmptyCoords(board) # {})
    => ret = PlainChoice(board, op.number)

\* C5 witness: a hard move was returned after a search that pruned, and it is
\* not the first empty cell.
C5_Witness ==
    /\ op.name = "AIPlayer.makeMove" /\ op.difficulty = "hard"
    /\ EmptyCoords(board) # {}
    /\ makeMinimaxMove(board, op.number, getEmptyCells(board)).cut
    /\ ret # FirstInRaster(EmptyCoords(board))

\* C7: for every difficulty, an unrecognised one included, AIPlayer.makeMove
\* returns null iff the board has no empty cell; otherwise it returns one
\* coordinate that is in bounds, playable and empty.
C7_MoveIsEmptyCell ==
    op.name = "AIPlayer.makeMove" =>
        IF EmptyCoords(board) = {} THEN ret = Null
        ELSE ret # Null /\ PlayableEmpty(board, ret[1], ret[2])

\* C7 witness: an AIPlayer of unrecognised difficulty returned the one empty
\* cell of a board that has other cells owned.
C7_Witness ==
    /\ op.name = "AIPlayer.makeMove" /\ op.difficulty = "expert"
    /\ Cardinality(EmptyCoords(board)) = 1
    /\ ret \in EmptyCoords(board)
    /\ board.size = 3

\* C8: when some empty cell wins at once for its own side, a medium AIPlayer
\* returns the first such cell in row-major order.
C8_MediumTakesWin ==
    (op.name = "AIPlayer.makeMove" /\ op.difficulty = "medium"
        /\ WinningCells(board, op.number) # {})
    => ret = FirstInRaster(WinningCells(board, op.number))

\* C8 witness: a medium AIPlayer that had not yet won took the first of
\* several winning cells, which is not the cell its strategic scoring ranks
\* first.
C8_Witness ==
    /\ op.name = "AIPlayer.makeMove" /\ op.difficulty = "medium"
    /\ ~checkWin(board, op.number)
    /\ Cardinality(WinningCells(board, op.number)) >= 2
    /\ ret = FirstInRaster(WinningCells(board, op.number))
    /\ ret # findStrategicMove(board, op.number, getEmptyCells(board))

\* C9: when no empty cell wins at once for its own side and some empty cell
\* would win for the opponent, a medium AIPlayer returns the first such cell
\* in row-major order.
C9_MediumBlocks ==
    (op.name = "AIPlayer.makeMove" /\ op.difficulty = "medium"
        /\ WinningCells(board, op.number) = {}
        /\ WinningCells(board, opponentOf(op.number)) # {})
    => ret = FirstInRaster(WinningCells(board, opponentOf(op.number)))

\* C9 witness: a medium AIPlayer blocked on a cell other than the one its
\* strategic scoring ranks first.
C9_Witness ==
    /\ op.name = "AIPlayer.makeMove" /\ op.difficulty = "medium"
    /\ WinningCells(board, op.number) = {}
    /\ WinningCells(board, opponentOf(op.number)) # {}
    /\ ret # findStrategicMove(board, op.number, getEmptyCells(board))

\* C10: minimax returns +10000 when its own side has won, else -10000 when
\* the opponent has won, else 0 when no cell is empty, else the own-minus-
\* opponent connectivity score when depth is 0, and only otherwise the best
\* value over the moves it expands.
C10_MinimaxLeafRule ==
    op.name = "AIPlayer.minimax" =>
        LET number   == op.number
            opponent == opponentOf(op.number)
        IN  ret = IF checkWin(board, number) THEN 10000
                  ELSE IF checkWin(board, opponent) THEN 0 - 10000
                  ELSE IF EmptyCoords(board) = {} THEN 0
                  ELSE IF op.depth = 0
                       THEN calculateConnectivity(board, number)
                            - calculateConnectivity(board, opponent)
                  ELSE IF op.isMaximizing
                       THEN SetMax({ PlainValue(Place(board, c, number), number,
                                                op.depth - 1, FALSE) :
                                     c \in EmptyCoords(board) })
                       ELSE SetMin({ PlainValue(Place(board, c, opponent), number,
                                                op.depth - 1, TRUE) :
                                     c \in EmptyCoords(board) })

\* C10 witness: minimax was called with depth 0 on a full board nobody has
\* won and returned 0, although the connectivity scores differ.
C10_Witness ==
    /\ op.name = "AIPlayer.minimax" /\ op.depth = 0
    /\ EmptyCoords(board) = {}
    /\ ~checkWin(board, 1) /\ ~checkWin(board, 2)
    /\ ret = 0
    /\ calculateConnectivity(board, 1) # calculateConnectivity(board, 2)

\* The value makeMinimaxMove gives an empty cell: the minimax value of the
\* position after the searching side's mark is placed there, opponent to
\* move, depth maxDepth - 1, full window.
RootValue(b, number, c) ==
    minimax(Place(b, c, number), number, maxDepthFor(getEmptyCells(b)) - 1, FALSE,
            0 - Infinity, Infinity).score

BestRootCells(b, number) ==
    LET v == [c \in EmptyCoords(b) |-> RootValue(b, number, c)]
    IN  { c \in EmptyCoords(b) : \A d \in EmptyCoords(b) : v[d] <= v[c] }

\* C11: makeMinimaxMove returns the empty coordinate of maximum value, and
\* among the coordinates of maximum value the first in row-major order.
C11_MinimaxMoveIsFirstBest ==
    (op.name = "AIPlayer.makeMove" /\ op.difficulty = "hard"
        /\ EmptyCoords(board) # {})
    => ret = FirstInRaster(BestRootCells(board, op.number))

\* C11 witness: a hard move was returned where an earlier empty cell has a
\* lower value and a later empty cell has the same value.
C11_Witness ==
    /\ op.name = "AIPlayer.makeMove" /\ op.difficulty = "hard"
    /\ EmptyCoords(board) # {}
    /\ ret \in BestRootCells(board, op.number)
    /\ \E c \in EmptyCoords(board) \ BestRootCells(board, op.number) :
          RasterBefore(c, ret)
    /\ \E c \in BestRootCells(board, op.number) : RasterBefore(ret, c)

\* C12: the search depth makeMinimaxMove chooses depends only on the number e
\* of empty cells: 3 when e > 20, 4 when 11 <= e <= 20, 5 when e <= 10.
C12_DepthByEmptyCount ==
    LET e == Cardinality(EmptyCoords(board))
    IN  (op.name = "AIPlayer.maxDepth" /\ e > 0) =>
            /\ e > 20 => ret = 3
            /\ (11 <= e /\ e <= 20) => ret = 4
            /\ e <= 10 => ret = 5

\* C12 witness: depth 3 was chosen on a board with 21 empty cells.
C12_Witness ==
    /\ op.name = "AIPlayer.maxDepth"
    /\ Cardinality(EmptyCoords(board)) = 21
    /\ ret = 3

\* The cells of `side` adjacent to coordinate c.
OwnNeighbours(b, side, c) == { a \in OwnedCells(b, side) : AdjacentCoords(c, a) }

\* 10 per neighbouring cell of the side, plus size - |c - floor(size / 2)| with
\* c the column for side 1 and the row for side 2.
StrategicScoreOf(b, side, c) ==
    10 * Cardinality(OwnNeighbours(b, side, c))
    + (b.size - Abs((IF side = 1 THEN c[2] ELSE c[1]) - (b.size \div 2)))

NoImmediateWin(b) == WinningCells(b, 1) = {} /\ WinningCells(b, 2) = {}

\* C13: when neither side has an immediately winning coordinate, medium
\* returns the first empty coordinate, in row-major order, of maximum score;
\* and if some empty coordinate is adjacent to a cell of the searching side,
\* the returned coordinate is adjacent to one.
C13_MediumStrategicChoice ==
    (op.name = "AIPlayer.makeMove" /\ op.difficulty = "medium"
        /\ EmptyCoords(board) # {} /\ NoImmediateWin(board))
    => /\ ret = FirstInRaster({ c \in EmptyCoords(board) :
                  \A d \in EmptyCoords(board) :
                      StrategicScoreOf(board, op.number, d)
                          <= StrategicScoreOf(board, op.number, c) })
       /\ (\E c \in EmptyCoords(board) : OwnNeighbours(board, op.number, c) # {})
              => OwnNeighbours(board, op.number, ret) # {}

\* C13 witness: with no immediate win for either side, medium returned a cell
\* adjacent to one of its own that is not the first empty cell, while some
\* empty cell has no neighbour of its side.
C13_Witness ==
    /\ op.name = "AIPlayer.makeMove" /\ op.difficulty = "medium"
    /\ EmptyCoords(board) # {} /\ NoImmediateWin(board)
    /\ OwnNeighbours(board, op.number, ret) # {}
    /\ ret # FirstInRaster(EmptyCoords(board))
    /\ \E c \in EmptyCoords(board) : OwnNeighbours(board, op.number, c) = {}

\* The maximal connected components of `side`: sets of its cells joined by
\* chains of adjacent cells of the same owner.
Components(b, side) ==
    { ChainClosure(b, side, {c}) : c \in OwnedCells(b, side) }

ComponentScore(b, side, comp) ==
    LET axes == { Axis(side, c) : c \in comp }
    IN  10 * Cardinality(comp)
        + 50 * (SetMax(axes) - SetMin(axes))
        + (IF 0 \in axes THEN 100 ELSE 0)
        + (IF b.size - 1 \in axes THEN 100 ELSE 0)

RECURSIVE SumOfScores(_, _, _)
SumOfScores(b, side, comps) ==
    IF comps = {} THEN 0
    ELSE LET k == CHOOSE k \in comps : TRUE
         IN  ComponentScore(b, side, k) + SumOfScores(b, side, comps \ {k})

ConnectivityOf(b, side) == SumOfScores(b, side, Components(b, side))

\* C14: calculateConnectivity is the sum over the side's maximal connected
\* components of 10 * cells + 50 * (max - min of the row for side 1, of the
\* column for side 2) + 100 for a cell on coordinate 0 + 100 for a cell on
\* coordinate N-1; and the score of a position that is not terminal is the
\* searching side's connectivity minus the opponent's.
C14_ConnectivityFormula ==
    \A side \in Players :
        /\ calculateConnectivity(board, side) = ConnectivityOf(board, side)
        /\ (~checkWin(board, 1) /\ ~checkWin(board, 2) /\ EmptyCoords(board) # {})
              => /\ ~evaluatePosition(board, side).isTerminal
                 /\ evaluatePosition(board, side).score
                        = ConnectivityOf(board, side)
                          - ConnectivityOf(board, opponentOf(side))

\* C14 witness: a size-3 position that is not terminal in which side 2 has two
\* components, one of them spanning two columns, and side 1 has a cell.
C14_Witness ==
    /\ board.size = 3
    /\ ~checkWin(board, 1) /\ ~checkWin(board, 2) /\ EmptyCoords(board) # {}
    /\ Cardinality(Components(board, 2)) = 2
    /\ \E k \in Components(board, 2) : \E a, c \in k : a[2] # c[2]
    /\ OwnedCells(board, 1) # {}
    /\ calculateConnectivity(board, 2) = ConnectivityOf(board, 2)

IsCorner(b, c) == c[1] \in {0, b.size - 1} /\ c[2] \in {0, b.size - 1}

IsBorder(b, c) == c[1] \in {0, b.size - 1} \/ c[2] \in {0, b.size - 1}

NeighbourCount(b, c) == Len(getNeighbors(b, c[1], c[2]))

\* C15 as stated: on a hexagon board of size N >= 3, getNeighbors returns
\* exactly 2 cells for each of the four corners, 4 for every other border
\* coordinate and 6 for every interior coordinate.
C15_Stated ==
    (board.shape = "hexagon" /\ board.size >= 3) =>
        \A c \in Coords(board.size) :
            NeighbourCount(board, c) =
                IF IsCorner(board, c) THEN 2
                ELSE IF IsBorder(board, c) THEN 4 ELSE 6

\* C15, amended: on a hexagon board of size N >= 3, getNeighbors returns
\* exactly 2 cells for the corners (0,0) and (N-1,N-1), exactly 3 for the
\* corners (0,N-1) and (N-1,0), 4 for every other border coordinate and 6
\* for every interior coordinate.
C15_NeighbourCounts ==
    (board.shape = "hexagon" /\ board.size >= 3) =>
        \A c \in Coords(board.size) :
            NeighbourCount(board, c) =
                IF IsCorner(board, c) THEN (IF c[1] = c[2] THEN 2 ELSE 3)
                ELSE IF IsBorder(board, c) THEN 4 ELSE 6

\* C15 witness: a hexagon board of size 3 with marks on it, whose corner
\* (0,2) has the three neighbours (1,2), (1,1), (0,1) and whose centre has six.
C15_Witness ==
    /\ board.shape = "hexagon" /\ board.size = 3
    /\ op.name = "HexBoard.makeMove"
    /\ getNeighbors(board, 0, 2) = << <<1, 2>>, <<1, 1>>, <<0, 1>> >>
    /\ NeighbourCount(board, <<1, 1>>) = 6

\* The coordinates of the grid the shape predicate excludes.
ExcludedCoords(b) ==
    { c \in Coords(b.size) : ~isCellValidForShape(b.size, b.shape, c[1], c[2]) }

SeqRange(q) == { q[i] : i \in 1 .. Len(q) }

\* C16: on diamond and triangle boards, in every state reached by placements
\* and AI move requests, a coordinate the shape predicate excludes is never
\* returned by getNeighbors, never in getEmptyCells, never owned and never
\* returned as a move by AIPlayer.makeMove.
C16_ExcludedCellsDoNotExist ==
    board.shape \in {"diamond", "triangle"} =>
        \A x \in ExcludedCoords(board) :
            /\ \A c \in Coords(board.size) :
                   x \notin SeqRange(getNeighbors(board, c[1], c[2]))
            /\ x \notin SeqRange(getEmptyCells(board))
            /\ board.board[x] \notin Players
            /\ op.name = "AIPlayer.makeMove" => ret # x

\* C16 witness: on a diamond or triangle board of size 3 with owned cells, an
\* AIPlayer returned a move that has an excluded coordinate among its six
\* offsets.
C16_Witness ==
    /\ board.shape \in {"diamond", "triangle"} /\ board.size = 3
    /\ op.name = "AIPlayer.makeMove" /\ ret # Null
    /\ \E x \in ExcludedCoords(board) : AdjacentCoords(ret, x)
    /\ OwnedCells(board, 1) # {} /\ OwnedCells(board, 2) # {}

PlayableCoords(b) == Coords(b.size) \ ExcludedCoords(b)

\* C17: in every state reached by HexBoard.makeMove calls with side 1 or 2,
\* the number of coordinates in getEmptyCells plus the cells of side 1 plus
\* the cells of side 2 is the number of playable coordinates of the shape,
\* and every playable cell has one owner value among none, 1 and 2.
C17_CellCountsAddUp ==
    /\ Len(getEmptyCells(board))
         + Cardinality(OwnedCells(board, 1)) + Cardinality(OwnedCells(board, 2))
       = Cardinality(PlayableCoords(board))
    /\ \A c \in PlayableCoords(board) : board.board[c] \in {Empty, 1, 2}

\* C17 witness: a size-3 diamond on which both sides own cells, empty cells
\* remain and the last placement was refused.
C17_Witness ==
    /\ board.shape = "diamond" /\ board.size = 3
    /\ OwnedCells(board, 1) # {} /\ OwnedCells(board, 2) # {}
    /\ Len(getEmptyCells(board)) >= 2
    /\ op.name = "HexBoard.makeMove" /\ ret = FALSE

(* -------------------------- claims on HexGame ------------------------- *)

\* C18: across HexGame.makeMove calls a cell that has an owner keeps that
\* owner: no cell goes back to empty and none changes sides.
C18_OwnersArePermanent ==
    [][op'.name = "HexGame.makeMove" =>
          \A c \in Coords(board.size) :
              board.board[c] \in Players => board'.board[c] = board.board[c]]_vars

\* C18 witness: after two moves of a game a third call, aimed at an owned
\* cell, was refused and both marks are where the history says.
C18_Witness ==
    /\ op.name = "HexGame.makeMove"
    /\ ret.message = "Position already occupied"
    /\ Len(moveHistory) = 2
    /\ \A i \in 1 .. 2 :
          board.board[<<moveHistory[i].row, moveHistory[i].col>>]
              = moveHistory[i].player

\* C19: in a HexGame driven by makeMove the sides alternate starting with
\* side 1: a successful move that does not end the game flips
\* currentPlayerIndex, the i-th entry of moveHistory has move = i and player 1
\* for odd i and 2 for even i, and the length of moveHistory is the number of
\* owned cells.
C19_SidesAlternate ==
    [][op'.name = "HexGame.makeMove" =>
          /\ (ret'.success /\ ~gameOver')
                => currentPlayerIndex' = 1 - currentPlayerIndex
          /\ \A i \in 1 .. Len(moveHistory') :
                /\ moveHistory'[i].move = i
                /\ moveHistory'[i].player = (IF i % 2 = 1 THEN 1 ELSE 2)
          /\ Len(moveHistory') = Cardinality(OwnedCells(board', 1))
                                 + Cardinality(OwnedCells(board', 2))]_vars

\* C19 witness: three moves were made, the game goes on and side 2 is to move.
C19_Witness ==
    /\ op.name = "HexGame.makeMove"
    /\ ret.success
    /\ Len(moveHistory) = 3
    /\ ~gameOver
    /\ currentPlayerIndex = 1

\* (row, col) is outside the grid or excluded by the shape.
NotPlayable(b, rc) ==
    ~(/\ rc[1] \in 0 .. b.size - 1
      /\ rc[2] \in 0 .. b.size - 1
      /\ isCellValidForShape(b.size, b.shape, rc[1], rc[2]))

Refusal(message) == [success |-> FALSE, message |-> message]

\* The answer of a HexGame.makeMove call on rc that changes nothing:
\* 'Invalid position' off the playable cells, 'Position already occupied' on
\* an owned cell.
RefusedAsStated(rc) ==
    /\ NotPlayable(board, rc)
          => ret' = Refusal("Invalid position") /\ UNCHANGED <<board, gameVars>>
    /\ (~NotPlayable(board, rc) /\ board.board[rc] \in Players)
          => ret' = Refusal("Position already occupied")
             /\ UNCHANGED <<board, gameVars>>

\* C20 as stated: a HexGame.makeMove call on an out-of-bounds or non-playable
\* coordinate returns success false with 'Invalid position', and on an owned
\* coordinate success false with 'Position already occupied'; the board,
\* currentPlayerIndex, moveHistory, gameOver and winner are unchanged.
C20_Stated ==
    [][\A rc \in Probes(board.size) :
          HexGame_makeMove(rc[1], rc[2]) => RefusedAsStated(rc)]_vars

\* C20, amended: while the game is not over, a HexGame.makeMove call answers
\* as stated; once the game is over every call returns success false with
\* 'Game is already over', whatever the coordinate.  In all these cases the
\* board, currentPlayerIndex, moveHistory, gameOver and winner are unchanged.
C20_RefusalsWhileGameRuns ==
    [][\A rc \in Probes(board.size) :
          HexGame_makeMove(rc[1], rc[2]) =>
              IF gameOver
              THEN ret' = Refusal("Game is already over")
                   /\ UNCHANGED <<board, gameVars>>
              ELSE RefusedAsStated(rc)]_vars

\* C20 witness: in a running game with marks on a board that has excluded
\* coordinates, a call was refused with 'Invalid position'.
C20_Witness ==
    /\ op.name = "HexGame.makeMove"
    /\ ret = Refusal("Invalid position")
    /\ ~gameOver
    /\ Len(moveHistory) >= 1
    /\ ExcludedCoords(board) # {}

\* C21: once gameOver is true, every later makeMove call, whatever the
\* coordinate, returns success false with 'Game is already over' and leaves
\* the board, currentPlayerIndex, moveHistory, gameOver and winner unchanged,
\* until reset is called.
C21_NoMoveAfterGameOver ==
    [][(gameOver /\ op'.name = "HexGame.makeMove") =>
          /\ ret' = Refusal("Game is already over")
          /\ UNCHANGED <<board, gameVars>>]_vars

\* C21 witness: on a size-3 board a call was refused because the game is over
\* although empty cells remain.
C21_Witness ==
    /\ gameOver
    /\ op.name = "HexGame.makeMove"
    /\ ret = Refusal("Game is already over")
    /\ board.size = 3
    /\ EmptyCoords(board) # {}

\* C22: after HexGame.reset() the game is in the state of a freshly
\* constructed game with the same board size and the same board shape: the
\* same playable coordinates, all of them empty, currentPlayerIndex 0,
\* gameOver false, winner null and an empty moveHistory.
C22_Stated ==
    [][op'.name = "HexGame.reset" =>
          /\ board' = NewHexBoard(board.size, board.shape)
          /\ currentPlayerIndex' = 0
          /\ gameOver' = FALSE
          /\ winner' = 0
          /\ moveHistory' = <<>>]_vars

\* C23: on the hexagon shape a game cannot end in a draw: gameOver with
\* winner null is unreachable, and when no empty cell is left the game is
\* over and won by the side that made the last move.
C23_HexagonHasNoDraw ==
    board.shape = "hexagon" /\ gameMode # "none" =>
        /\ ~(gameOver /\ winner = 0)
        /\ EmptyCoords(board) = {} =>
              /\ gameOver
              /\ winner \in Players
              /\ moveHistory # <<>>
              /\ winner = moveHistory[Len(moveHistory)].player

\* C23 witness: a hexagon game of size 3 played until the board is full, won
\* with the last cell.
C23_Witness ==
    /\ board.shape = "hexagon"
    /\ board.size = 3
    /\ EmptyCoords(board) = {}
    /\ Len(moveHistory) = 9
    /\ gameOver
    /\ winner = 1

RestrictedShapes == {"diamond", "triangle"}

\* C24 as stated: on the diamond and triangle shapes every board whose
\* playable coordinates are all owned has checkWin true for at least one
\* side, so a game never reaches gameOver with winner null.
C24_Stated ==
    board.shape \in RestrictedShapes /\ gameMode # "none" =>
        /\ EmptyCoords(board) = {} => \E s \in Players : checkWin(board, s)
        /\ ~(gameOver /\ winner = 0)

\* C24: on the diamond and triangle shapes a game is in the state gameOver
\* with winner null exactly when every playable coordinate is owned and
\* checkWin is false for both sides (and such boards are reached).
C24_DrawIffFullAndUnconnected ==
    board.shape \in RestrictedShapes /\ gameMode # "none" =>
        ((gameOver /\ winner = 0) <=>
            /\ EmptyCoords(board) = {}
            /\ \A s \in Players : ~checkWin(board, s))

\* C24 witness: a diamond game of size 3 that ended with all five playable
\* cells owned and neither side connected.
C24_Witness ==
    /\ board.shape = "diamond"
    /\ board.size = 3
    /\ EmptyCoords(board) = {}
    /\ \A s \in Players : ~checkWin(board, s)
    /\ gameOver
    /\ winner = 0
    /\ Len(moveHistory) = 5

SpansAxis(b, side, component) ==
    /\ \E i \in 1 .. Len(component) : Axis(side, component[i]) = 0
    /\ \E i \in 1 .. Len(component) : Axis(side, component[i]) = b.size - 1

RECURSIVE SumOfLengths(_)
SumOfLengths(q) ==
    IF q = <<>> THEN 0 ELSE Len(q[1]) + SumOfLengths(SubSeq(q, 2, Len(q)))

\* C25: the win check and the evaluator agree on connectivity: checkWin(s) is
\* true exactly when one of the components that getConnectedComponent
\* produces for s holds a cell on axis coordinate 0 and one on N-1, and the
\* components of one calculateConnectivity call partition the owned cells of
\* s (every owned cell in exactly one component, once).
C25_WinCheckAgreesWithComponents ==
    \A s \in Players :
        LET comps == connectedComponents(board, s)
        IN  /\ checkWin(board, s) <=>
                  \E k \in 1 .. Len(comps) : SpansAxis(board, s, comps[k])
            /\ UNION { SeqRange(comps[k]) : k \in 1 .. Len(comps) }
                  = OwnedCells(board, s)
            /\ SumOfLengths(comps) = Cardinality(OwnedCells(board, s))
            /\ \A k \in 1 .. Len(comps) : comps[k] # <<>>

\* C25 witness: a size-3 board on which side 1 has two components, one of
\* them joining row 0 to row 2, and side 2 has two components and no win.
C25_Witness ==
    /\ board.size = 3
    /\ Len(connectedComponents(board, 1)) = 2
    /\ checkWin(board, 1)
    /\ Len(connectedComponents(board, 2)) = 2
    /\ ~checkWin(board, 2)

Finite(score) == 0 - Infinity < score /\ score < Infinity

\* C26: on a board with at least one empty cell every minimax call made by
\* makeMinimaxMove returns a finite number, so makeMinimaxMove returns the
\* coordinate selected by score comparison, an empty cell, and never takes the
\* random fallback, also when the search depth exceeds the number of empty
\* cells; a minimax call made directly returns a finite number as well.
C26_MinimaxIsFinite ==
    /\ (op.name = "AIPlayer.makeMove" /\ op.difficulty = "hard"
            /\ EmptyCoords(board) # {})
        => /\ \A c \in EmptyCoords(board) : Finite(RootValue(board, op.number, c))
           /\ makeMinimaxMove(board, op.number, getEmptyCells(board)).move
                 # RandomPick
           /\ ret \in EmptyCoords(board)
    /\ op.name = "AIPlayer.minimax" => Finite(ret)

\* C26 witness: a hard move on a diamond board of size 3 with two empty cells
\* (search depth 5) and no winner, where the search runs out of empty cells:
\* the returned cell has the value 0 of a full board without a winner.
C26_Witness ==
    /\ op.name = "AIPlayer.makeMove"
    /\ op.difficulty = "hard"
    /\ board.shape = "diamond"
    /\ board.size = 3
    /\ Cardinality(EmptyCoords(board)) = 2
    /\ \A s \in Players : ~checkWin(board, s)
    /\ ret \in EmptyCoords(board)
    /\ RootValue(board, op.number, ret) = 0

(* ------------------ claims on HexMultiplayerServer ------------------- *)

\* The socket is the session player at index i of the session's player list.
IsPlayerAt(srv, socket, i) ==
    /\ i + 1 \in DOMAIN srv.players
    /\ srv.players[i + 1] = socket

\* C27: a make-move request changes the game only when the requesting socket
\* is the session player whose index in the session's player list equals
\* currentPlayerIndex; a request from the off-turn player, a spectator or a
\* socket outside the session gets the error 'Not your turn' and a request for
\* an unknown gameId gets 'Game not found', both leaving the game unchanged.
C27_OnlyTheSideOnTurnMoves ==
    [][op'.name = "make-move" =>
          LET known  == server.active /\ op'.gameId = "g1"
              onTurn == IsPlayerAt(server, op'.socket, currentPlayerIndex)
          IN  /\ ~known =>
                    /\ ret' = ServerEvent("error", "Game not found")
                    /\ UNCHANGED <<board, gameVars>>
              /\ (known /\ ~onTurn) =>
                    /\ ret' = ServerEvent("error", "Not your turn")
                    /\ UNCHANGED <<board, gameVars>>
              /\ <<board, gameVars>>' # <<board, gameVars>> => known /\ onTurn]_vars

\* C27 witness: in a matched game with a move made and a spectator present,
\* the player who is not on turn asked for a move and got 'Not your turn'.
C27_Witness ==
    /\ server # NoServer
    /\ server.active
    /\ gameMode = "online-multiplayer"
    /\ Len(moveHistory) >= 1
    /\ server.spectators # {}
    /\ op.name = "make-move"
    /\ op.gameId = "g1"
    /\ IsPlayerAt(server, op.socket, 1 - currentPlayerIndex)
    /\ ret = ServerEvent("error", "Not your turn")

\* C28: a game created by create-game in mode human-vs-ai or human-vs-ai-hard
\* can always progress: in every reachable state where it is not over, some
\* step of the server adds a move to it (an accepted make-move request of the
\* human player, or the computer side's move played by the server).
C28_Stated ==
    (/\ ServerUp
     /\ server.active
     /\ gameMode \in {"human-vs-ai", "human-vs-ai-hard"}
     /\ ~gameOver)
    => ENABLED (NextServer /\ Len(moveHistory') > Len(moveHistory))

(* ------------------ claims on the state of a HexGame ----------------- *)

\* C29: in every state of a HexGame reachable by makeMove and reset: winner
\* is non-null only if gameOver is true and checkWin is true for the winner's
\* side; if gameOver is false neither side's checkWin is true and an empty
\* cell exists; if gameOver is true and winner is null no empty cell exists.
C29_GameStateIsConsistent ==
    gameMode # "none" =>
        /\ winner # 0 => (gameOver /\ winner \in Players /\ checkWin(board, winner))
        /\ ~gameOver =>
              /\ \A s \in Players : ~checkWin(board, s)
              /\ EmptyCoords(board) # {}
        /\ (gameOver /\ winner = 0) => EmptyCoords(board) = {}

\* C29 witness: a game won by side 2 on a board of size 3 with empty cells
\* left.
C29_Witness ==
    /\ gameMode # "none"
    /\ board.size = 3
    /\ gameOver
    /\ winner = 2
    /\ checkWin(board, 2)
    /\ EmptyCoords(board) # {}
    /\ op.name = "HexGame.makeMove"
    /\ ret.success

\* C30: save/load is a round trip: for every game reached by makeMove calls
\* (any size, mode and board shape), HexGame.loadGame(game.saveGame()) yields
\* a game with the same board size and shape, the same owner in every cell,
\* the same currentPlayerIndex, gameOver flag, winner side and moveHistory.
C30_Stated ==
    op.name = "HexGame.loadGame" => ret = Returned(ThisGame)

\* C31: on a board of every shape getBoardState returns a size x size matrix
\* without raising, with no owner at the coordinates that are not playable,
\* so saveGame completes for every shape.
C31_Stated ==
    op.name = "HexGame.loadGame" =>
        /\ getBoardState(board).error = ""
        /\ getBoardState(board).value
              = [rc \in Coords(board.size) |->
                    IF board.board[rc] \in Players THEN board.board[rc] ELSE Empty]
        /\ ret.error = ""

(* ------------------------ claims on Tournament ------------------------ *)

\* C32: playGame between two computer participants terminates: each iteration
\* of the loop obtains a move that game.makeMove accepts, so the number of
\* empty cells decreases by one each time, until the game is over. An
\* iteration is always able to run while the game is not over.
C32_AutoPlayTerminates ==
    /\ [](CallRuns /\ bothComputers /\ ~gameOver =>
             autoPlayOutcomes(ThisGame,
                 aiMakeMove(board, playerNumberAt(currentPlayerIndex),
                            difficultyOf(currentParticipant))) # {})
    /\ [][op'.name = "Tournament.playGame: loop" =>
             /\ ret' # Null
             /\ ret'.success
             /\ Cardinality(EmptyCoords(board')) = Cardinality(EmptyCoords(board)) - 1]_vars
    /\ (CallRuns /\ bothComputers) ~> (CallRuns /\ gameOver)

\* C32 witness: a game between an easy and a hard computer participant on the
\* diamond of size 3, played by the loop to its end.
C32_Witness ==
    /\ CallRuns
    /\ gameInfoPlayed.player1.difficulty = "easy"
    /\ gameInfoPlayed.player2.difficulty = "hard"
    /\ board.shape = "diamond"
    /\ board.size = 3
    /\ op.name = "Tournament.playGame: loop"
    /\ gameOver
    /\ Len(moveHistory) >= 4

\* C33: playGame marks a scheduled game completed and updates the results only
\* for a game that was played to gameOver, and records a draw only when that
\* game ended with a full board and no winner, whoever the participants are.
C33_Stated ==
    [][op'.name = "Tournament.playGame: record" =>
          /\ tournament'.games[op'.gameIndex + 1].completed => gameOver
          /\ tournament'.results # tournament.results => gameOver
          /\ (\E k \in 1 .. Len(tournament.participants) :
                 tournament'.results[tournament.participants[k].name].draws >
                     tournament.results[tournament.participants[k].name].draws)
                 => /\ gameOver
                    /\ winner = 0
                    /\ EmptyCoords(board) = {}]_vars

\* The number of scheduled games with a as player 1 and b as player 2.
GamesBetween(a, b) ==
    Cardinality({ k \in 1 .. Len(tournament.games) :
                    /\ tournament.games[k].player1 = a
                    /\ tournament.games[k].player2 = b })

\* C34: a round-robin tournament over n participants schedules exactly
\* n*(n-1) games, one for every ordered pair of distinct participants, with the
\* game ids 1..n*(n-1); playGame on a completed game throws 'Game already
\* completed' and on an index >= the number of games throws 'Invalid game
\* index', and both leave the tournament as it was.
C34_RoundRobinSchedule ==
    /\ [](tournament.format = "round-robin" =>
            LET n == Len(tournament.participants)
            IN  /\ Len(tournament.games) = n * (n - 1)
                /\ \A a \in 1 .. n, b \in 1 .. n :
                       a # b => GamesBetween(tournament.participants[a],
                                             tournament.participants[b]) = 1
                /\ { tournament.games[k].gameId : k \in 1 .. Len(tournament.games) }
                       = 1 .. n * (n - 1))
    /\ [][op'.name = "Tournament.playGame" =>
             IF op'.gameIndex >= Len(tournament.games)
             THEN ret' = Thrown("Invalid game index") /\ tournament' = tournament
             ELSE tournament.games[op'.gameIndex + 1].completed =>
                     /\ ret' = Thrown("Game already completed")
                     /\ tournament' = tournament]_vars

\* C34 witness: in a round-robin tournament of four participants, playGame on
\* the last of the twelve games, already completed, has thrown while another
\* game is still to be played.
C34_Witness ==
    /\ tournament.format = "round-robin"
    /\ Len(tournament.participants) = 4
    /\ op = TournamentCall("Tournament.playGame", 11)
    /\ ret = Thrown("Game already completed")
    /\ tournament.results["d"].wins = 1
    /\ ~tournament.games[1].completed

\* C35: a single-elimination tournament over n >= 2 participants schedules a
\* complete bracket of exactly n - 1 games, the games after the first round
\* being between winners or bye holders of the round before.
C35_Stated ==
    (tournament.format = "single-elimination" /\ Len(tournament.participants) >= 2)
        => /\ Len(tournament.games) = Len(tournament.participants) - 1
           /\ Len(tournament.participants) > 2 =>
                  \E k \in 1 .. Len(tournament.games) : tournament.games[k].round > 1

(* -------------------- claims on the win traversal --------------------- *)

\* The cells a log holds, and a log that holds no cell twice.
LogCells(log) == { log[k] : k \in 1 .. Len(log) }

ExpandedOnce(log) == Cardinality(LogCells(log)) = Len(log)

\* C36: every checkWin call terminates and expands each cell at most once:
\* the visited set is shared by all seeds, holds exactly the cells expanded so
\* far, which are cells of the side, and sharing it never hides a winning
\* chain: the call finds one exactly when one exists.
C36_EachCellExpandedOnce ==
    \A side \in Players :
        LET r == checkWinLogged(board, side)
        IN  /\ ExpandedOnce(r.log)
            /\ Len(r.log) <= Cardinality(OwnedCells(board, side))
            /\ LogCells(r.log) = r.visited
            /\ r.visited \subseteq OwnedCells(board, side)
            /\ r.found = checkWin(board, side)
            /\ r.found = HasChain(board, side)

\* C36 witness: on the hexagon of size 3 the call for side 1 expanded the seed
\* (0,0) and its neighbour (1,0) without reaching the goal, then found a chain
\* from the seed (0,2) with the visited set the first seed left.
C36_Witness ==
    LET r == checkWinLogged(board, 1)
    IN  /\ board.size = 3
        /\ board.shape = "hexagon"
        /\ r.found
        /\ Len(r.log) = 5
        /\ r.log[1] = <<0, 0>>
        /\ r.log[2] = <<1, 0>>
        /\ r.log[3] = <<0, 2>>

====
